---- MODULE Spec2Model ----
(***************************************************************************)
(* Voxel world subsystem of 3d-pit-word: Chunk (block grid), VoxelWorld    *)
(* (chunk streaming, block edits, mesh registration) and VoxelMesher       *)
(* (simple and greedy meshing).                                            *)
(*                                                                         *)
(* Chunk keys are the strings "x,z" in the source; here a key is the pair  *)
(* <<x, z>>.  JavaScript null / undefined options are modelled as sets of  *)
(* zero or one element (a chunk's mesh, the configured per-frame budget).  *)
(* Insertion-ordered Sets and Maps of the source are sequences.            *)
(***************************************************************************)
EXTENDS FiniteSets, Integers, Sequences, TLC

\* ------------------------------------------------------------------------
\* Bounds (the source runs with CHUNK_SIZE 16, WORLD_HEIGHT 256,
\* RENDER_DISTANCE 8; the model is scaled down)
\* ------------------------------------------------------------------------
ChunkSize == 1
WorldHeight == 2
RenderDistance == 1
MaxBudget == 2
MaxEdits == 2
MaxViewer == 1
MaxTicks == 3
MaxEditTicks == 2
MaxOscTicks == 5
GridSize == 2
GridHeight == 1
MaxChunkOps == 3
VoxelChunkSize == 2
MaxSolid == 3
MaxSeed == 1
MaxRandomSeed == 1
MaxGenCalls == 3
MaxGenChunk == 1

VARIABLES
    chunks,            \* VoxelWorld.chunks: key -> Chunk
    loadedChunks,      \* VoxelWorld.loadedChunks, in insertion order
    chunkLoadQueue,    \* VoxelWorld.chunkLoadQueue
    chunkUnloadQueue,  \* VoxelWorld.chunkUnloadQueue
    lastPlayerChunk,   \* VoxelWorld.lastPlayerChunk
    scene,             \* meshes registered with the THREE scene
    budget,            \* CONFIG.PERFORMANCE.MAX_CHUNK_OPERATIONS_PER_FRAME, {} when unset
    edits,             \* number of VoxelWorld.setBlock calls made so far
    ticks,             \* number of VoxelWorld.update calls made so far
    lastCall,          \* the last call made on the world and what it did
    blockChunk,        \* a Chunk (blocks) mutated on its own
    chunkOps,          \* number of mutations applied to blockChunk
    chunkCall,         \* the last mutation of blockChunk and what it returned
    voxelChunk,        \* a Chunk (voxels) handed to the VoxelMesher
    quads,             \* the quads of generateGreedyMesh(voxelChunk), by direction
    greedyDone,        \* whether generateGreedyMesh has run on voxelChunk
    exposed,           \* isFaceExposed of voxelChunk by position and face, once asked
    simple,            \* the geometry of generateSimpleMesh(voxelChunk), {} before it ran
    generators,        \* TerrainGenerator objects, as constructed
    generated          \* the generateChunk calls made so far and the grids they returned

worldVars == <<chunks, loadedChunks, chunkLoadQueue, chunkUnloadQueue,
               lastPlayerChunk, scene, budget, edits, ticks, lastCall>>

chunkVars == <<blockChunk, chunkOps, chunkCall>>

meshVars == <<voxelChunk, quads, greedyDone, exposed, simple>>

terrainVars == <<generators, generated>>

vars == <<worldVars, chunkVars, meshVars, terrainVars>>

Range(s) == {s[i] : i \in 1..Len(s)}

\* ------------------------------------------------------------------------
\* Chunk (world chunk: blocks, 'air' for empty)
\* ------------------------------------------------------------------------
Cells(size, height) == (0..(size - 1)) \X (0..(height - 1)) \X (0..(size - 1))

Chunk_new(x, z, size, height) ==
    [x |-> x, z |-> z, size |-> size, height |-> height,
     blocks |-> [p \in Cells(size, height) |-> "air"],
     mesh |-> {}, isDirty |-> FALSE, isGenerated |-> FALSE, isLoaded |-> FALSE,
     blockCount |-> 0]

Chunk_inBounds(c, x, y, z) ==
    ~(x < 0 \/ x >= c.size \/ y < 0 \/ y >= c.height \/ z < 0 \/ z >= c.size)

Chunk_getBlock(c, x, y, z) ==
    IF ~Chunk_inBounds(c, x, y, z) THEN "null" ELSE c.blocks[<<x, y, z>>]

Chunk_setBlock_CountsEveryWrite(c, x, y, z, blockType) ==
    IF ~Chunk_inBounds(c, x, y, z)
    THEN [ok |-> FALSE, chunk |-> c]
    ELSE [ok |-> TRUE,
          chunk |-> [c EXCEPT !.blocks[<<x, y, z>>] = blockType,
                              !.blockCount = IF blockType # "air" THEN @ + 1 ELSE @ - 1,
                              !.isDirty = TRUE]]

Chunk_setBlock_RejectsSameType(c, x, y, z, blockType) ==
    IF ~Chunk_inBounds(c, x, y, z) \/ c.blocks[<<x, y, z>>] = blockType
    THEN [ok |-> FALSE, chunk |-> c]
    ELSE [ok |-> TRUE,
          chunk |-> [c EXCEPT !.blocks[<<x, y, z>>] = blockType,
                              !.blockCount =
                                  IF c.blocks[<<x, y, z>>] = "air" THEN @ + 1
                                  ELSE IF blockType = "air" THEN @ - 1 ELSE @,
                              !.isDirty = TRUE]]

Chunk_setBlock(c, x, y, z, blockType) ==
    IF ~Chunk_inBounds(c, x, y, z)
    THEN [ok |-> FALSE, chunk |-> c]
    ELSE LET oldBlock == c.blocks[<<x, y, z>>]
             cnt == IF oldBlock = "air" /\ blockType # "air" THEN c.blockCount + 1
                    ELSE IF oldBlock # "air" /\ blockType = "air" THEN c.blockCount - 1
                    ELSE c.blockCount
         IN [ok |-> TRUE,
             chunk |-> [c EXCEPT !.blocks[<<x, y, z>>] = blockType,
                                 !.blockCount = cnt,
                                 !.isDirty = TRUE]]

Chunk_setData(c, chunkData) ==
    LET filled == [p \in Cells(c.size, c.height) |->
                      IF chunkData[p] \in {"null", ""} THEN "air" ELSE chunkData[p]]
    IN [c EXCEPT !.blocks = filled,
                 !.blockCount = Cardinality({p \in Cells(c.size, c.height) : filled[p] # "air"}),
                 !.isGenerated = TRUE,
                 !.isDirty = TRUE]

Chunk_setMesh(c, mesh) ==
    [c EXCEPT !.mesh = {[m EXCEPT !.position = <<c.x * c.size, 0, c.z * c.size>>] : m \in mesh},
              !.isDirty = FALSE,
              !.isLoaded = TRUE]

Chunk_isEmpty(c) == c.blockCount = 0

Chunk_isSolid(c, x, y, z) ==
    Chunk_getBlock(c, x, y, z) # "null" /\ Chunk_getBlock(c, x, y, z) # "air"

\* the change of blockCount for one cell going from oldBlock to blockType
CountDelta(oldBlock, blockType) ==
    IF oldBlock = "air" /\ blockType # "air" THEN 1
    ELSE IF oldBlock # "air" /\ blockType = "air" THEN -1
    ELSE 0

Chunk_replaceBlocks(c, fromType, toType) ==
    LET hit == {p \in Cells(c.size, c.height) : c.blocks[p] = fromType}
        replacedCount == Cardinality(hit)
    IN [count |-> replacedCount,
        chunk |-> [c EXCEPT !.blocks = [p \in Cells(c.size, c.height) |->
                                           IF p \in hit THEN toType ELSE c.blocks[p]],
                            !.blockCount = @ + replacedCount * CountDelta(fromType, toType),
                            !.isDirty = IF replacedCount > 0 THEN TRUE ELSE @]]

Min(a, b) == IF a < b THEN a ELSE b

Max(a, b) == IF a > b THEN a ELSE b

Chunk_fillRegion(c, startX, startY, startZ, endX, endY, endZ, blockType) ==
    LET minX == Max(0, Min(startX, endX))
        maxX == Min(c.size - 1, Max(startX, endX))
        minY == Max(0, Min(startY, endY))
        maxY == Min(c.height - 1, Max(startY, endY))
        minZ == Max(0, Min(startZ, endZ))
        maxZ == Min(c.size - 1, Max(startZ, endZ))
        box == (minX..maxX) \X (minY..maxY) \X (minZ..maxZ)
        filledCount == Cardinality(box)
        gained == Cardinality({p \in box : CountDelta(c.blocks[p], blockType) = 1})
        lost == Cardinality({p \in box : CountDelta(c.blocks[p], blockType) = -1})
    IN [count |-> filledCount,
        chunk |-> [c EXCEPT !.blocks = [p \in Cells(c.size, c.height) |->
                                           IF p \in box THEN blockType ELSE c.blocks[p]],
                            !.blockCount = @ + gained - lost,
                            !.isDirty = IF filledCount > 0 THEN TRUE ELSE @]]

\* ------------------------------------------------------------------------
\* TerrainGenerator
\* ------------------------------------------------------------------------
\* Height of the terrain column at a world position (the noise function and
\* the biome table are the terrain collaborator's; at least 1, as the source
\* clamps it).
TerrainColumnHeight(worldX, worldZ) == 1 + ((worldX + worldZ) % WorldHeight)

BiomeConfig == [surfaceBlock |-> "grass", subSurfaceBlock |-> "dirt", deepBlock |-> "stone"]

fillTerrainColumn(height, y) ==
    IF y = 0 THEN "stone"                       \* bedrock overwrite, chunkHeight > 0
    ELSE IF y >= height THEN "air"
    ELSE IF y = height - 1 THEN BiomeConfig.surfaceBlock
    ELSE IF y >= height - 4 THEN BiomeConfig.subSurfaceBlock
    ELSE BiomeConfig.deepBlock

generateChunk(chunkX, chunkZ, chunkSize, chunkHeight) ==
    [p \in Cells(chunkSize, chunkHeight) |->
        fillTerrainColumn(TerrainColumnHeight(chunkX * chunkSize + p[1],
                                              chunkZ * chunkSize + p[3]), p[2])]

\* new TerrainGenerator(seed): seed || Math.floor(Math.random() * 1000000).
\* The argument is {} for null and {n} for the number n; random is the value
\* Math.random yields. A null and a zero argument are falsy.
TerrainGenerator_new(seed, random) ==
    [arg |-> seed, seed |-> IF seed = {} \/ seed = {0} THEN random ELSE CHOOSE n \in seed : TRUE]

\* generateTerrainColumn: the height the generator's hash noise gives a world
\* column, a fixed function of the seed and the column, at least 1
SeededColumnHeight(g, worldX, worldZ) == 1 + ((worldX + worldZ + g.seed) % WorldHeight)

\* random(x, z, salt): a fixed function of the seed, the position and the salt
Terrain_random(g, x, z, salt) == (x + 2 * z + g.seed + salt) % 3

\* addFeatures: a tree trunk on the column when random(worldX, worldZ, 'tree')
\* is below the biome's tree chance (the leaves start above the world height
\* of the model)
TreeTrunk(g, x, z, worldX, worldZ, height, chunkHeight) ==
    IF Terrain_random(g, worldX, worldZ, 1) = 0
    THEN LET treeHeight == 4 + Terrain_random(g, x, z, 2)
             trunkHeight == (treeHeight * 7) \div 10
         IN height..(Min(height + trunkHeight, chunkHeight) - 1)
    ELSE {}

\* TerrainGenerator.generateChunk on the generator g
Terrain_generateChunk(g, chunkX, chunkZ, chunkSize, chunkHeight) ==
    [p \in Cells(chunkSize, chunkHeight) |->
        LET worldX == chunkX * chunkSize + p[1]
            worldZ == chunkZ * chunkSize + p[3]
            height == SeededColumnHeight(g, worldX, worldZ)
        IN IF p[2] \in TreeTrunk(g, p[1], p[3], worldX, worldZ, height, chunkHeight)
           THEN "wood"
           ELSE fillTerrainColumn(height, p[2])]

\* ------------------------------------------------------------------------
\* VoxelWorld
\* ------------------------------------------------------------------------
getChunkKey(chunkX, chunkZ) == <<chunkX, chunkZ>>

parseChunkKey(chunkKey) == [x |-> chunkKey[1], z |-> chunkKey[2]]

worldToChunk(worldX, worldZ) ==
    [x |-> worldX \div ChunkSize, z |-> worldZ \div ChunkSize]

FaceDirs ==
    <<[name |-> "top",    dir |-> <<0, 1, 0>>,
       corners |-> <<<<0, 1, 1>>, <<1, 1, 1>>, <<1, 1, 0>>, <<0, 1, 0>>>>],
      [name |-> "bottom", dir |-> <<0, -1, 0>>,
       corners |-> <<<<0, 0, 0>>, <<1, 0, 0>>, <<1, 0, 1>>, <<0, 0, 1>>>>],
      [name |-> "right",  dir |-> <<1, 0, 0>>,
       corners |-> <<<<1, 0, 1>>, <<1, 1, 1>>, <<1, 1, 0>>, <<1, 0, 0>>>>],
      [name |-> "left",   dir |-> <<-1, 0, 0>>,
       corners |-> <<<<0, 0, 0>>, <<0, 1, 0>>, <<0, 1, 1>>, <<0, 0, 1>>>>],
      [name |-> "front",  dir |-> <<0, 0, 1>>,
       corners |-> <<<<0, 0, 1>>, <<0, 1, 1>>, <<1, 1, 1>>, <<1, 0, 1>>>>],
      [name |-> "back",   dir |-> <<0, 0, -1>>,
       corners |-> <<<<1, 0, 0>>, <<1, 1, 0>>, <<0, 1, 0>>, <<0, 0, 0>>>>]>>

FaceDir(name) == CHOOSE f \in Range(FaceDirs) : f.name = name

\* The faces VoxelWorld.generateChunkMesh emits for a chunk: one per solid
\* block and direction whose neighbour reads 'air' or null.
ChunkFaces(c) ==
    {[x |-> p[1], y |-> p[2], z |-> p[3], face |-> FaceDirs[i].name, type |-> c.blocks[p]] :
        <<p, i>> \in {q \in Cells(c.size, c.height) \X (1..6) :
            /\ Chunk_getBlock(c, q[1][1], q[1][2], q[1][3]) # "air"
            /\ Chunk_getBlock(c, q[1][1] + FaceDirs[q[2]].dir[1],
                                 q[1][2] + FaceDirs[q[2]].dir[2],
                                 q[1][3] + FaceDirs[q[2]].dir[3]) \in {"air", "null"}}}

\* the faces in the order generateChunkMesh emits them: x outermost, then y,
\* z, and the six face directions
FaceOrder(c) ==
    LET n == c.size * c.height * c.size
        all == [i \in 1..(6 * n) |->
                   LET cell == (i - 1) \div 6
                       x == cell \div (c.height * c.size)
                       y == (cell \div c.size) % c.height
                       z == cell % c.size
                   IN [x |-> x, y |-> y, z |-> z, face |-> FaceDirs[((i - 1) % 6) + 1].name,
                       type |-> c.blocks[<<x, y, z>>]]]
        emitted == ChunkFaces(c)
    IN SelectSeq(all, LAMBDA f : f \in emitted)

\* geometry.addGroup calls: one group per block type in the order the types
\* first emit a face, each as long as the type's index list, laid end to end
MaterialGroups(order) ==
    LET firsts == SelectSeq([i \in 1..Len(order) |-> i],
                            LAMBDA i : \A j \in 1..(i - 1) : order[j].type # order[i].type)
        faceIndices(t) == 6 * Cardinality({i \in 1..Len(order) : order[i].type = t})
    IN [g \in 1..Len(firsts) |->
           [start |-> 6 * Cardinality({i \in 1..Len(order) :
                          \E h \in 1..(g - 1) : order[firsts[h]].type = order[i].type}),
            count |-> faceIndices(order[firsts[g]].type),
            materialIndex |-> g - 1,
            type |-> order[firsts[g]].type]]

\* the index buffer: two triangles over the four vertices of each face
MeshIndices(order) ==
    [i \in 1..(6 * Len(order)) |->
        4 * ((i - 1) \div 6) + <<0, 1, 2, 0, 2, 3>>[((i - 1) % 6) + 1]]

\* the vertex buffer: the four corners of each face, offset by the chunk
MeshVertices(c, order) ==
    [i \in 1..(4 * Len(order)) |->
        LET f == order[((i - 1) \div 4) + 1]
            corner == FaceDir(f.face).corners[((i - 1) % 4) + 1]
        IN <<f.x + corner[1] + c.x * c.size, f.y + corner[2], f.z + corner[3] + c.z * c.size>>]

\* the normal buffer: the direction of its face for each vertex
MeshNormals(order) ==
    [i \in 1..(4 * Len(order)) |-> FaceDir(order[((i - 1) \div 4) + 1].face).dir]

\* null ({}) when no vertex was emitted, else the mesh
generateChunkMesh(c) ==
    LET order == FaceOrder(c)
    IN IF order = <<>> THEN {}
       ELSE {[chunk |-> getChunkKey(c.x, c.z), faces |-> Range(order),
              order |-> order, groups |-> MaterialGroups(order),
              position |-> <<0, 0, 0>>]}

World ==
    [chunks |-> chunks, loadedChunks |-> loadedChunks,
     chunkLoadQueue |-> chunkLoadQueue, chunkUnloadQueue |-> chunkUnloadQueue,
     scene |-> scene, operations |-> 0,
     queuedLoad |-> <<>>, queuedUnload |-> <<>>, ops |-> <<>>]

WithinBudget_Inclusive(operations, maxOperationsPerFrame) ==
    \E k \in maxOperationsPerFrame : operations <= k

\* operations < maxOperationsPerFrame, false when the budget is undefined
WithinBudget(operations, maxOperationsPerFrame) ==
    \E k \in maxOperationsPerFrame : operations < k

InLoadRadius(x, z, playerChunk) ==
    (x - playerChunk.x) * (x - playerChunk.x) + (z - playerChunk.z) * (z - playerChunk.z)
        <= RenderDistance * RenderDistance

\* chunksToLoad / chunksToKeep, in the order the nested loops insert them
ChunksInRange(playerChunk) ==
    LET side == 2 * RenderDistance + 1
        all == [i \in 1..(side * side) |->
                   getChunkKey(playerChunk.x - RenderDistance + ((i - 1) \div side),
                               playerChunk.z - RenderDistance + ((i - 1) % side))]
    IN SelectSeq(all, LAMBDA k : InLoadRadius(k[1], k[2], playerChunk))

updateChunkLoading_NoQueueCheck(W, playerChunk) ==
    LET chunksToLoad == ChunksInRange(playerChunk)
        chunksToKeep == Range(chunksToLoad)
        toLoad == SelectSeq(chunksToLoad, LAMBDA k : k \notin Range(W.loadedChunks))
        toUnload == SelectSeq(W.loadedChunks,
                      LAMBDA k : k \notin chunksToKeep /\ k \notin Range(W.chunkUnloadQueue))
    IN [W EXCEPT !.chunkLoadQueue = W.chunkLoadQueue \o toLoad,
                 !.chunkUnloadQueue = W.chunkUnloadQueue \o toUnload,
                 !.queuedLoad = toLoad,
                 !.queuedUnload = toUnload]

updateChunkLoading_NoLoadedCheck(W, playerChunk) ==
    LET chunksToLoad == ChunksInRange(playerChunk)
        chunksToKeep == Range(chunksToLoad)
        toLoad == SelectSeq(chunksToLoad, LAMBDA k : k \notin Range(W.chunkLoadQueue))
        toUnload == SelectSeq(W.loadedChunks,
                      LAMBDA k : k \notin chunksToKeep /\ k \notin Range(W.chunkUnloadQueue))
    IN [W EXCEPT !.chunkLoadQueue = W.chunkLoadQueue \o toLoad,
                 !.chunkUnloadQueue = W.chunkUnloadQueue \o toUnload,
                 !.queuedLoad = toLoad,
                 !.queuedUnload = toUnload]

updateChunkLoading(W, playerChunk) ==
    LET chunksToLoad == ChunksInRange(playerChunk)
        chunksToKeep == Range(chunksToLoad)
        toLoad == SelectSeq(chunksToLoad,
                      LAMBDA k : k \notin Range(W.loadedChunks) /\ k \notin Range(W.chunkLoadQueue))
        toUnload == SelectSeq(W.loadedChunks,
                      LAMBDA k : k \notin chunksToKeep /\ k \notin Range(W.chunkUnloadQueue))
    IN [W EXCEPT !.chunkLoadQueue = W.chunkLoadQueue \o toLoad,
                 !.chunkUnloadQueue = W.chunkUnloadQueue \o toUnload,
                 !.queuedLoad = toLoad,
                 !.queuedUnload = toUnload]

Without(f, k) == [j \in (DOMAIN f) \ {k} |-> f[j]]

loadChunk_Unmeshed(W, chunkKey, throws) ==
    IF chunkKey \in Range(W.loadedChunks)
    THEN [W EXCEPT !.ops = Append(@, [op |-> "load", key |-> chunkKey, result |-> "already"])]
    ELSE IF throws
    THEN [W EXCEPT !.ops = Append(@, [op |-> "load", key |-> chunkKey, result |-> "failed"])]
    ELSE LET k == parseChunkKey(chunkKey)
             chunkData == generateChunk(k.x, k.z, ChunkSize, WorldHeight)
             chunk == Chunk_setData(Chunk_new(k.x, k.z, ChunkSize, WorldHeight), chunkData)
         IN [W EXCEPT !.chunks = (chunkKey :> chunk) @@ @,
                      !.loadedChunks = Append(@, chunkKey),
                      !.ops = Append(@, [op |-> "load", key |-> chunkKey, result |-> "loaded"])]

loadChunk_FailureMarksLoaded(W, chunkKey, throws) ==
    IF chunkKey \in Range(W.loadedChunks)
    THEN [W EXCEPT !.ops = Append(@, [op |-> "load", key |-> chunkKey, result |-> "already"])]
    ELSE IF throws
    THEN [W EXCEPT !.loadedChunks = Append(@, chunkKey),
                   !.ops = Append(@, [op |-> "load", key |-> chunkKey, result |-> "failed"])]
    ELSE LET k == parseChunkKey(chunkKey)
             chunkData == generateChunk(k.x, k.z, ChunkSize, WorldHeight)
             chunk == Chunk_setData(Chunk_new(k.x, k.z, ChunkSize, WorldHeight), chunkData)
             mesh == generateChunkMesh(chunk)
             meshed == IF mesh # {} THEN Chunk_setMesh(chunk, mesh) ELSE chunk
         IN [W EXCEPT !.scene = IF mesh # {} THEN @ \cup meshed.mesh ELSE @,
                      !.chunks = (chunkKey :> meshed) @@ @,
                      !.loadedChunks = Append(@, chunkKey),
                      !.ops = Append(@, [op |-> "load", key |-> chunkKey, result |-> "loaded"])]

loadChunk(W, chunkKey, throws) ==
    IF chunkKey \in Range(W.loadedChunks)
    THEN [W EXCEPT !.ops = Append(@, [op |-> "load", key |-> chunkKey, result |-> "already"])]
    ELSE IF throws
    THEN [W EXCEPT !.ops = Append(@, [op |-> "load", key |-> chunkKey, result |-> "failed"])]
    ELSE LET k == parseChunkKey(chunkKey)
             chunkData == generateChunk(k.x, k.z, ChunkSize, WorldHeight)
             chunk == Chunk_setData(Chunk_new(k.x, k.z, ChunkSize, WorldHeight), chunkData)
             mesh == generateChunkMesh(chunk)
             meshed == IF mesh # {} THEN Chunk_setMesh(chunk, mesh) ELSE chunk
         IN [W EXCEPT !.scene = IF mesh # {} THEN @ \cup meshed.mesh ELSE @,
                      !.chunks = (chunkKey :> meshed) @@ @,
                      !.loadedChunks = Append(@, chunkKey),
                      !.ops = Append(@, [op |-> "load", key |-> chunkKey, result |-> "loaded"])]

unloadChunk_KeepsMesh(W, chunkKey) ==
    IF chunkKey \notin DOMAIN W.chunks
    THEN [W EXCEPT !.ops = Append(@, [op |-> "unload", key |-> chunkKey, result |-> "missing"])]
    ELSE [W EXCEPT !.chunks = Without(@, chunkKey),
                   !.loadedChunks = SelectSeq(@, LAMBDA k : k # chunkKey),
                   !.ops = Append(@, [op |-> "unload", key |-> chunkKey, result |-> "unloaded"])]

unloadChunk(W, chunkKey) ==
    IF chunkKey \notin DOMAIN W.chunks
    THEN [W EXCEPT !.ops = Append(@, [op |-> "unload", key |-> chunkKey, result |-> "missing"])]
    ELSE [W EXCEPT !.scene = @ \ W.chunks[chunkKey].mesh,
                   !.chunks = Without(@, chunkKey),
                   !.loadedChunks = SelectSeq(@, LAMBDA k : k # chunkKey),
                   !.ops = Append(@, [op |-> "unload", key |-> chunkKey, result |-> "unloaded"])]

\* the loading while-loop of processChunkQueues
RECURSIVE LoadLoop(_, _, _)
LoadLoop(W, maxOperationsPerFrame, failing) ==
    IF Len(W.chunkLoadQueue) > 0 /\ WithinBudget(W.operations, maxOperationsPerFrame)
    THEN LET chunkKey == Head(W.chunkLoadQueue)
             shifted == [W EXCEPT !.chunkLoadQueue = Tail(@)]
             done == loadChunk(shifted, chunkKey, chunkKey \in failing)
         IN LoadLoop([done EXCEPT !.operations = @ + 1], maxOperationsPerFrame, failing)
    ELSE W

\* the unloading while-loop of processChunkQueues
RECURSIVE UnloadLoop(_, _)
UnloadLoop(W, maxOperationsPerFrame) ==
    IF Len(W.chunkUnloadQueue) > 0 /\ WithinBudget(W.operations, maxOperationsPerFrame)
    THEN LET chunkKey == Head(W.chunkUnloadQueue)
             shifted == [W EXCEPT !.chunkUnloadQueue = Tail(@)]
             done == unloadChunk(shifted, chunkKey)
         IN UnloadLoop([done EXCEPT !.operations = @ + 1], maxOperationsPerFrame)
    ELSE W

processChunkQueues_LoadsFirst(W, maxOperationsPerFrame, failing) ==
    UnloadLoop([LoadLoop([W EXCEPT !.operations = 0], maxOperationsPerFrame, failing)
                    EXCEPT !.operations = 0],
               maxOperationsPerFrame)

processChunkQueues(W, maxOperationsPerFrame, failing) ==
    LoadLoop(UnloadLoop([W EXCEPT !.operations = 0], maxOperationsPerFrame),
             maxOperationsPerFrame, failing)

update_AlwaysRequeue(W, playerChunkBefore, currentChunk, maxOperationsPerFrame, failing) ==
    processChunkQueues(updateChunkLoading(W, currentChunk), maxOperationsPerFrame, failing)

update(W, playerChunkBefore, currentChunk, maxOperationsPerFrame, failing) ==
    processChunkQueues(
        IF currentChunk.x # playerChunkBefore.x \/ currentChunk.z # playerChunkBefore.z
        THEN updateChunkLoading(W, currentChunk) ELSE W,
        maxOperationsPerFrame, failing)

regenerateChunkMesh(W, chunkKey) ==
    IF chunkKey \notin DOMAIN W.chunks THEN W
    ELSE LET chunk == W.chunks[chunkKey]
             oldMesh == chunk.mesh
             newMesh == generateChunkMesh(chunk)
             meshed == IF newMesh # {} THEN Chunk_setMesh(chunk, newMesh) ELSE chunk
         IN [W EXCEPT !.scene = IF newMesh # {} THEN (@ \ oldMesh) \cup meshed.mesh
                                ELSE @ \ oldMesh,
                      !.chunks[chunkKey] = meshed]

\* null ("null") when the owning chunk is not loaded
World_getBlock(W, worldX, worldY, worldZ) ==
    LET chunkCoords == worldToChunk(worldX, worldZ)
        chunkKey == getChunkKey(chunkCoords.x, chunkCoords.z)
    IN IF chunkKey \notin DOMAIN W.chunks THEN "null"
       ELSE Chunk_getBlock(W.chunks[chunkKey],
                           worldX - chunkCoords.x * ChunkSize, worldY,
                           worldZ - chunkCoords.z * ChunkSize)

World_setBlock_CreatesChunk(W, worldX, worldY, worldZ, blockType) ==
    LET chunkCoords == worldToChunk(worldX, worldZ)
        chunkKey == getChunkKey(chunkCoords.x, chunkCoords.z)
    IN IF chunkKey \notin DOMAIN W.chunks
       THEN [ok |-> FALSE,
             world |-> [W EXCEPT !.chunks =
                           (chunkKey :> Chunk_new(chunkCoords.x, chunkCoords.z,
                                                  ChunkSize, WorldHeight)) @@ @]]
       ELSE LET r == Chunk_setBlock(W.chunks[chunkKey], worldX - chunkCoords.x * ChunkSize,
                                    worldY, worldZ - chunkCoords.z * ChunkSize, blockType)
            IN IF r.ok
               THEN [ok |-> TRUE,
                     world |-> regenerateChunkMesh([W EXCEPT !.chunks[chunkKey] = r.chunk],
                                                   chunkKey)]
               ELSE [ok |-> FALSE, world |-> W]

World_setBlock_MirrorsNegative(W, worldX, worldY, worldZ, blockType) ==
    LET absX == IF worldX < 0 THEN -worldX ELSE worldX
        absZ == IF worldZ < 0 THEN -worldZ ELSE worldZ
        chunkCoords == worldToChunk(absX, absZ)
        chunkKey == getChunkKey(chunkCoords.x, chunkCoords.z)
    IN IF chunkKey \notin DOMAIN W.chunks
       THEN [ok |-> FALSE, world |-> W]
       ELSE LET localX == absX - chunkCoords.x * ChunkSize
                localZ == absZ - chunkCoords.z * ChunkSize
                r == Chunk_setBlock(W.chunks[chunkKey], localX, worldY, localZ, blockType)
            IN IF r.ok
               THEN [ok |-> TRUE,
                     world |-> regenerateChunkMesh([W EXCEPT !.chunks[chunkKey] = r.chunk],
                                                   chunkKey)]
               ELSE [ok |-> FALSE, world |-> W]

World_setBlock(W, worldX, worldY, worldZ, blockType) ==
    LET chunkCoords == worldToChunk(worldX, worldZ)
        chunkKey == getChunkKey(chunkCoords.x, chunkCoords.z)
    IN IF chunkKey \notin DOMAIN W.chunks
       THEN [ok |-> FALSE, world |-> W]
       ELSE LET localX == worldX - chunkCoords.x * ChunkSize
                localZ == worldZ - chunkCoords.z * ChunkSize
                r == Chunk_setBlock(W.chunks[chunkKey], localX, worldY, localZ, blockType)
            IN IF r.ok
               THEN [ok |-> TRUE,
                     world |-> regenerateChunkMesh([W EXCEPT !.chunks[chunkKey] = r.chunk],
                                                   chunkKey)]
               ELSE [ok |-> FALSE, world |-> W]

\* Raycasting. Lengths are in half blocks, so that the centre of a cell has
\* integer (odd) coordinates; a ray starts at the centre of a cell and runs
\* along an axis.
\* the normal THREE computes for the triangle (a, b, c) from its winding
TriangleNormal(a, b, c) ==
    LET e == [i \in 1..3 |-> b[i] - a[i]]
        f == [i \in 1..3 |-> c[i] - a[i]]
        n == <<e[2] * f[3] - e[3] * f[2], e[3] * f[1] - e[1] * f[3], e[1] * f[2] - e[2] * f[1]>>
    IN [i \in 1..3 |-> IF n[i] > 0 THEN 1 ELSE IF n[i] < 0 THEN -1 ELSE 0]

\* the vertex buffer of mesh m, of chunk c, where it is rendered: moved by
\* mesh.position
RenderedVertices(c, m) ==
    LET vertices == MeshVertices(c, m.order)
    IN [v \in 1..Len(vertices) |-> [i \in 1..3 |-> 2 * (vertices[v][i] + m.position[i])]]

\* the corners of the k-th quad of a rendered vertex buffer
RenderedQuad(rendered, k) == [j \in 1..4 |-> rendered[4 * (k - 1) + j]]

\* the intersection of the ray with a quad: {} when the ray misses it, runs
\* away from it or meets its back (materials are front-sided)
IntersectQuad(quad, origin, direction, key, k) ==
    LET normal == TriangleNormal(quad[1], quad[2], quad[3])
        axis == CHOOSE i \in 1..3 : direction[i] # 0
        distance == (quad[1][axis] - origin[axis]) * direction[axis]
    IN IF /\ normal[1] * direction[1] + normal[2] * direction[2] + normal[3] * direction[3] < 0
          /\ distance > 0
          /\ \A i \in (1..3) \ {axis} :
                /\ \E j \in 1..4 : quad[j][i] < origin[i]
                /\ \E j \in 1..4 : quad[j][i] > origin[i]
       THEN {[point |-> [i \in 1..3 |-> origin[i] + distance * direction[i]],
              normal |-> normal, distance |-> distance, chunk |-> key, face |-> k]}
       ELSE {}

\* a set of intersections as the array sorted by ascending distance
RECURSIVE SortByDistance(_)
SortByDistance(hits) ==
    IF hits = {} THEN <<>>
    ELSE LET nearest == CHOOSE h \in hits : \A g \in hits : h.distance <= g.distance
         IN <<nearest>> \o SortByDistance(hits \ {nearest})

\* raycaster.intersectObject(mesh) for the mesh the chunk holds
intersectObject(c, key, origin, direction) ==
    SortByDistance(UNION {LET rendered == RenderedVertices(c, m)
                          IN UNION {IntersectQuad(RenderedQuad(rendered, k), origin,
                                                  direction, key, k) : k \in 1..Len(m.order)} :
                             m \in c.mesh})

\* the intersects array of raycastBlocks: the chunks' intersections pushed in
\* the iteration order of the chunks map
RECURSIVE Intersects(_, _, _, _)
Intersects(W, keys, origin, direction) ==
    IF keys = <<>> THEN <<>>
    ELSE intersectObject(W.chunks[Head(keys)], Head(keys), origin, direction)
             \o Intersects(W, Tail(keys), origin, direction)

\* VoxelWorld.raycastBlocks: {} for { hit: false }; Math.floor of a length in
\* half blocks is \div 2
raycastBlocks(W, origin, direction) ==
    LET intersects == Intersects(W, W.loadedChunks, origin, direction)
    IN IF Len(intersects) > 0
       THEN LET intersection == intersects[1]
                point == intersection.point
                normal == intersection.normal
                block == [i \in 1..3 |-> point[i] \div 2]
            IN {[position |-> block,
                 adjacent |-> [i \in 1..3 |-> block[i] + normal[i]],
                 distance |-> intersection.distance,
                 normal |-> normal,
                 point |-> point,
                 chunk |-> intersection.chunk,
                 face |-> intersection.face]}
       ELSE {}

\* ------------------------------------------------------------------------
\* Chunk (engine chunk: voxels, null for air; "null" here)
\* ------------------------------------------------------------------------
VoxelCells(size) == (0..(size - 1)) \X (0..(size - 1)) \X (0..(size - 1))

VoxelChunk_new(x, z, size) ==
    [x |-> x, z |-> z, size |-> size,
     voxels |-> [p \in VoxelCells(size) |-> "null"],
     needsUpdate |-> TRUE, solidVoxelCount |-> 0]

isValidPosition(c, x, y, z) ==
    x >= 0 /\ x < c.size /\ y >= 0 /\ y < c.size /\ z >= 0 /\ z < c.size

setVoxel(c, x, y, z, voxelType) ==
    IF ~isValidPosition(c, x, y, z)
    THEN [ok |-> FALSE, chunk |-> c]
    ELSE LET oldVoxel == c.voxels[<<x, y, z>>]
         IN [ok |-> TRUE,
             chunk |-> [c EXCEPT !.voxels[<<x, y, z>>] = voxelType,
                                 !.solidVoxelCount =
                                     IF oldVoxel = "null" /\ voxelType # "null" THEN @ + 1
                                     ELSE IF oldVoxel # "null" /\ voxelType = "null" THEN @ - 1
                                     ELSE @,
                                 !.needsUpdate = TRUE]]

getVoxel(c, x, y, z) ==
    IF ~isValidPosition(c, x, y, z) THEN "null" ELSE c.voxels[<<x, y, z>>]

isSolid(c, x, y, z) == getVoxel(c, x, y, z) # "null"

FaceOffsets ==
    [top |-> <<0, 1, 0>>, bottom |-> <<0, -1, 0>>, north |-> <<0, 0, -1>>,
     south |-> <<0, 0, 1>>, east |-> <<1, 0, 0>>, west |-> <<-1, 0, 0>>]

isFaceExposed_BorderHidden(c, x, y, z, face) ==
    IF ~isSolid(c, x, y, z) THEN FALSE
    ELSE isValidPosition(c, x + FaceOffsets[face][1], y + FaceOffsets[face][2],
                         z + FaceOffsets[face][3])
         /\ ~isSolid(c, x + FaceOffsets[face][1], y + FaceOffsets[face][2],
                     z + FaceOffsets[face][3])

isFaceExposed(c, x, y, z, face) ==
    IF ~isSolid(c, x, y, z) THEN FALSE
    ELSE LET neighborX == x + FaceOffsets[face][1]
             neighborY == y + FaceOffsets[face][2]
             neighborZ == z + FaceOffsets[face][3]
         IN IF ~isValidPosition(c, neighborX, neighborY, neighborZ) THEN TRUE
            ELSE ~isSolid(c, neighborX, neighborY, neighborZ)

\* the faces array of getExposedFaces, in its order
faces == <<"top", "bottom", "north", "south", "east", "west">>

getExposedFaces_EveryFace(c) ==
    [i \in 1..(6 * c.size * c.size * c.size) |->
        LET cell == (i - 1) \div 6
            x == cell \div (c.size * c.size)
            y == (cell \div c.size) % c.size
            z == cell % c.size
        IN [x |-> x, y |-> y, z |-> z, face |-> faces[((i - 1) % 6) + 1],
            type |-> getVoxel(c, x, y, z)]]

\* Chunk.getExposedFaces: x outermost, then y, z, and the six faces
getExposedFaces(c) ==
    LET n == c.size * c.size * c.size
        all == [i \in 1..(6 * n) |->
                   LET cell == (i - 1) \div 6
                       x == cell \div (c.size * c.size)
                       y == (cell \div c.size) % c.size
                       z == cell % c.size
                   IN [x |-> x, y |-> y, z |-> z, face |-> faces[((i - 1) % 6) + 1],
                       type |-> getVoxel(c, x, y, z)]]
    IN SelectSeq(all, LAMBDA f : isSolid(c, f.x, f.y, f.z)
                                 /\ isFaceExposed(c, f.x, f.y, f.z, f.face))

\* ------------------------------------------------------------------------
\* VoxelMesher (simple meshing).  Lengths are in half voxels: voxelSize is 1
\* and half of it is 1 here, a voxel at x spans 2x-1 .. 2x+1.
\* ------------------------------------------------------------------------
faceDefinitions ==
    [top    |-> [vertices |-> <<<<-1, 1, -1>>, <<1, 1, -1>>, <<1, 1, 1>>,
                               <<-1, 1, -1>>, <<1, 1, 1>>, <<-1, 1, 1>>>>,
                 normal |-> <<0, 1, 0>>],
     bottom |-> [vertices |-> <<<<-1, -1, 1>>, <<1, -1, 1>>, <<1, -1, -1>>,
                               <<-1, -1, 1>>, <<1, -1, -1>>, <<-1, -1, -1>>>>,
                 normal |-> <<0, -1, 0>>],
     north  |-> [vertices |-> <<<<-1, -1, -1>>, <<1, -1, -1>>, <<1, 1, -1>>,
                               <<-1, -1, -1>>, <<1, 1, -1>>, <<-1, 1, -1>>>>,
                 normal |-> <<0, 0, -1>>],
     south  |-> [vertices |-> <<<<1, -1, 1>>, <<-1, -1, 1>>, <<-1, 1, 1>>,
                               <<1, -1, 1>>, <<-1, 1, 1>>, <<1, 1, 1>>>>,
                 normal |-> <<0, 0, 1>>],
     east   |-> [vertices |-> <<<<1, -1, -1>>, <<1, -1, 1>>, <<1, 1, 1>>,
                               <<1, -1, -1>>, <<1, 1, 1>>, <<1, 1, -1>>>>,
                 normal |-> <<1, 0, 0>>],
     west   |-> [vertices |-> <<<<-1, -1, 1>>, <<-1, -1, -1>>, <<-1, 1, -1>>,
                               <<-1, -1, 1>>, <<-1, 1, -1>>, <<-1, 1, 1>>>>,
                 normal |-> <<-1, 0, 0>>]]

\* six vertices, six normals and six indices per exposed face
generateSimpleMesh(c) ==
    LET exposedFaces == getExposedFaces(c)
        n == Len(exposedFaces)
    IN [vertices |-> [i \in 1..(6 * n) |->
                         LET f == exposedFaces[((i - 1) \div 6) + 1]
                             vertex == faceDefinitions[f.face].vertices[((i - 1) % 6) + 1]
                         IN <<2 * f.x + vertex[1], 2 * f.y + vertex[2], 2 * f.z + vertex[3]>>],
        normals |-> [i \in 1..(6 * n) |->
                        faceDefinitions[exposedFaces[((i - 1) \div 6) + 1].face].normal],
        indices |-> [i \in 1..(6 * n) |-> i - 1]]

\* ------------------------------------------------------------------------
\* VoxelMesher (greedy meshing)
\* ------------------------------------------------------------------------
directions ==
    <<[name |-> "top",    axis |-> 1, dir |-> 1],
      [name |-> "bottom", axis |-> 1, dir |-> -1],
      [name |-> "north",  axis |-> 2, dir |-> -1],
      [name |-> "south",  axis |-> 2, dir |-> 1],
      [name |-> "east",   axis |-> 0, dir |-> 1],
      [name |-> "west",   axis |-> 0, dir |-> -1]>>

createPosition(u, v, w, axis) ==
    IF axis = 0 THEN <<w, u, v>>
    ELSE IF axis = 1 THEN <<u, w, v>>
    ELSE <<u, v, w>>

getQuadPosition(startPos, direction, u, v) ==
    IF direction.axis = 0 THEN <<startPos[1], startPos[2] + v, startPos[3] + u>>
    ELSE IF direction.axis = 1 THEN <<startPos[1] + u, startPos[2], startPos[3] + v>>
    ELSE <<startPos[1] + u, startPos[2] + v, startPos[3]>>

shouldRenderFace(c, x, y, z, direction) ==
    IF ~isSolid(c, x, y, z) THEN FALSE
    ELSE isFaceExposed(c, x, y, z, direction.name)

canExpandQuad(c, startPos, direction, width, height, voxelType) ==
    \A h \in 0..(height - 1), w \in 0..(width - 1) :
        LET pos == getQuadPosition(startPos, direction, w, h)
        IN /\ isValidPosition(c, pos[1], pos[2], pos[3])
           /\ getVoxel(c, pos[1], pos[2], pos[3]) = voxelType
           /\ shouldRenderFace(c, pos[1], pos[2], pos[3], direction)

\* while (canExpandQuad(chunk, startPos, direction, width, 1, voxelType)) width++
RECURSIVE ExpandWidth(_, _, _, _, _)
ExpandWidth(c, startPos, direction, width, voxelType) ==
    IF canExpandQuad(c, startPos, direction, width, 1, voxelType)
    THEN ExpandWidth(c, startPos, direction, width + 1, voxelType)
    ELSE width

\* while (canExpandQuad(chunk, startPos, direction, width, height, voxelType)) height++
RECURSIVE ExpandHeight(_, _, _, _, _, _)
ExpandHeight(c, startPos, direction, width, height, voxelType) ==
    IF canExpandQuad(c, startPos, direction, width, height, voxelType)
    THEN ExpandHeight(c, startPos, direction, width, height + 1, voxelType)
    ELSE height

findLargestQuad_MarksNothing(c, startPos, direction, visited) ==
    LET voxelType == getVoxel(c, startPos[1], startPos[2], startPos[3])
    IN IF voxelType = "null" THEN [quad |-> {}, visited |-> visited]
       ELSE LET width == ExpandWidth(c, startPos, direction, 1, voxelType)
                height == ExpandHeight(c, startPos, direction, width, 1, voxelType)
            IN [quad |-> {[x |-> startPos[1], y |-> startPos[2], z |-> startPos[3],
                           width |-> width, height |-> height,
                           type |-> voxelType, direction |-> direction.name]},
                visited |-> visited]

\* the quad found ({} for null) and the visited set after it
findLargestQuad(c, startPos, direction, visited) ==
    LET voxelType == getVoxel(c, startPos[1], startPos[2], startPos[3])
    IN IF voxelType = "null" THEN [quad |-> {}, visited |-> visited]
       ELSE LET width == ExpandWidth(c, startPos, direction, 1, voxelType)
                height == ExpandHeight(c, startPos, direction, width, 1, voxelType)
            IN [quad |-> {[x |-> startPos[1], y |-> startPos[2], z |-> startPos[3],
                           width |-> width, height |-> height,
                           type |-> voxelType, direction |-> direction.name]},
                visited |-> visited \cup
                    {getQuadPosition(startPos, direction, w, h) :
                        w \in 0..(width - 1), h \in 0..(height - 1)}]

\* the scan of generateGreedyQuads from its i-th position on (uPos fastest)
RECURSIVE ScanPlane(_, _, _, _, _)
ScanPlane(c, direction, i, visited, found) ==
    IF i >= c.size * c.size * c.size THEN found
    ELSE LET wPos == i \div (c.size * c.size)
             vPos == (i \div c.size) % c.size
             uPos == i % c.size
             pos == createPosition(uPos, vPos, wPos, direction.axis)
         IN IF pos \in visited THEN ScanPlane(c, direction, i + 1, visited, found)
            ELSE IF ~shouldRenderFace(c, pos[1], pos[2], pos[3], direction)
            THEN ScanPlane(c, direction, i + 1, visited, found)
            ELSE LET r == findLargestQuad(c, pos, direction, visited)
                 IN ScanPlane(c, direction, i + 1, r.visited,
                              IF r.quad # {} THEN Append(found, CHOOSE q \in r.quad : TRUE)
                              ELSE found)

generateGreedyQuads(c, direction) == ScanPlane(c, direction, 0, {}, <<>>)

\* the four corners of a quad, in half voxels (voxelSize = 2 half voxels)
createQuadVertices(quad, direction) ==
    LET size == 2
        x == quad.x * size
        y == quad.y * size
        z == quad.z * size
        w == quad.width * size
        h == quad.height * size
    IN IF direction.name = "top"
       THEN <<<<x, y + size, z>>, <<x + w, y + size, z>>,
              <<x + w, y + size, z + h>>, <<x, y + size, z + h>>>>
       ELSE IF direction.name = "bottom"
       THEN <<<<x, y, z + h>>, <<x + w, y, z + h>>, <<x + w, y, z>>, <<x, y, z>>>>
       ELSE IF direction.name = "north"
       THEN <<<<x, y, z>>, <<x + w, y, z>>, <<x + w, y + h, z>>, <<x, y + h, z>>>>
       ELSE IF direction.name = "south"
       THEN <<<<x + w, y, z + size>>, <<x, y, z + size>>,
              <<x, y + h, z + size>>, <<x + w, y + h, z + size>>>>
       ELSE IF direction.name = "east"
       THEN <<<<x + size, y, z>>, <<x + size, y, z + w>>,
              <<x + size, y + h, z + w>>, <<x + size, y + h, z>>>>
       ELSE <<<<x, y, z + w>>, <<x, y, z>>, <<x, y + h, z>>, <<x, y + h, z + w>>>>

\* the quads generateGreedyMesh turns into vertices, one list per direction
generateGreedyMesh(c) ==
    [i \in 1..Len(directions) |-> generateGreedyQuads(c, directions[i])]

\* ------------------------------------------------------------------------
\* Inputs
\* ------------------------------------------------------------------------
ViewerPositions ==
    ((-MaxViewer * ChunkSize)..(MaxViewer * ChunkSize + ChunkSize - 1)) \X (0..(ChunkSize - 1))

EditTypes == {"air", "dirt"}

EditXs == (-MaxViewer * ChunkSize)..(MaxViewer * ChunkSize + ChunkSize - 1)

EditZs == 0..(ChunkSize - 1)

EditYs == 0..WorldHeight

Budgets == {{}} \cup {{k} : k \in 1..MaxBudget}

NoCall ==
    [op |-> "none", chunk |-> <<0, 0>>, changed |-> FALSE, ret |-> FALSE, value |-> "none",
     pos |-> <<0, 0, 0>>, type |-> "none", repeat |-> FALSE, hit |-> {},
     queuedLoad |-> <<>>, queuedUnload |-> <<>>, ops |-> <<>>]

BlockTypes == {"air", "dirt", "stone"}

\* the cells of the grid and one position beyond each of its six sides
ProbePositions ==
    Cells(GridSize, GridHeight) \cup
        {<<-1, 0, 0>>, <<GridSize, 0, 0>>, <<0, -1, 0>>, <<0, GridHeight, 0>>,
         <<0, 0, -1>>, <<0, 0, GridSize>>}

\* (start, end) along one axis of length n: overhanging both ends, the first
\* cell, reversed, and beyond the end
FillSpans(n) == {<<-1, n>>, <<0, 0>>, <<n - 1, 0>>, <<n, n>>}

FillTypes == {"air", "stone"}

\* chunkData handed to setData: generated terrain, and slabs of grass over
\* missing (null) entries
DataGrids ==
    {generateChunk(cx, cz, GridSize, GridHeight) : cx \in 0..1, cz \in 0..1} \cup
        {[p \in Cells(GridSize, GridHeight) |-> IF p[1] < k THEN "grass" ELSE "null"] :
            k \in 0..GridSize}

NoChunkCall ==
    [op |-> "none", ok |-> FALSE, count |-> 0, old |-> "null", type |-> "null", mesh |-> {},
     pos |-> <<0, 0, 0>>, repeat |-> FALSE]

ReadYs == (-1)..WorldHeight

FaceNames == {"top", "bottom", "north", "south", "east", "west"}

\* the cells of the voxel chunk and one position beyond each of its six sides
FaceProbes ==
    VoxelCells(VoxelChunkSize) \cup
        {<<-1, 0, 0>>, <<VoxelChunkSize, 0, 0>>, <<0, -1, 0>>, <<0, VoxelChunkSize, 0>>,
         <<0, 0, -1>>, <<0, 0, VoxelChunkSize>>}

VoxelTypes == {"grass", "dirt"}

\* the chunk after setVoxel(p, t) for each <<p, t>> of fills, in order
RECURSIVE FilledChunk(_, _)
FilledChunk(c, fills) ==
    IF fills = <<>> THEN c
    ELSE LET p == Head(fills)[1]
         IN FilledChunk(setVoxel(c, p[1], p[2], p[3], Head(fills)[2]).chunk, Tail(fills))

\* ------------------------------------------------------------------------
\* The world as a state machine
\* ------------------------------------------------------------------------
WorldInit ==
    /\ chunks = <<>>
    /\ loadedChunks = <<>>
    /\ chunkLoadQueue = <<>>
    /\ chunkUnloadQueue = <<>>
    /\ lastPlayerChunk = [x |-> 0, z |-> 0]
    /\ scene = {}
    /\ edits = 0
    /\ ticks = 0
    /\ lastCall = NoCall

ChunkInit ==
    /\ blockChunk = Chunk_new(0, 0, GridSize, GridHeight)
    /\ chunkOps = 0
    /\ chunkCall = NoChunkCall

MeshInit ==
    /\ voxelChunk = VoxelChunk_new(0, 0, VoxelChunkSize)
    /\ quads = <<>>
    /\ greedyDone = FALSE
    /\ exposed = <<>>
    /\ simple = {}

TerrainIdle ==
    /\ generators = <<>>
    /\ generated = <<>>

Init ==
    /\ WorldInit
    /\ budget \in Budgets
    /\ ChunkInit
    /\ MeshInit
    /\ TerrainIdle

\* the keys whose load can be attempted by the next processChunkQueues
Attemptable(W) ==
    {W.chunkLoadQueue[i] : i \in 1..(IF Len(W.chunkLoadQueue) < MaxBudget
                                      THEN Len(W.chunkLoadQueue) ELSE MaxBudget)}

Requeued(pos) ==
    LET currentChunk == worldToChunk(pos[1], pos[2])
    IN IF currentChunk.x # lastPlayerChunk.x \/ currentChunk.z # lastPlayerChunk.z
       THEN updateChunkLoading(World, currentChunk) ELSE World

\* VoxelWorld.update(playerPosition); terrain generation throws for the
\* chunks in failing
UpdateCall(pos, failing) ==
    LET currentChunk == worldToChunk(pos[1], pos[2])
        changed == currentChunk.x # lastPlayerChunk.x \/ currentChunk.z # lastPlayerChunk.z
    IN \E W \in {update(World, lastPlayerChunk, currentChunk, budget, failing)} :
          /\ chunks' = W.chunks
          /\ loadedChunks' = W.loadedChunks
          /\ chunkLoadQueue' = W.chunkLoadQueue
          /\ chunkUnloadQueue' = W.chunkUnloadQueue
          /\ scene' = W.scene
          /\ lastPlayerChunk' = IF changed THEN currentChunk ELSE lastPlayerChunk
          /\ lastCall' = [op |-> "update",
                          chunk |-> getChunkKey(currentChunk.x, currentChunk.z),
                          changed |-> changed, ret |-> TRUE, value |-> "none",
                          pos |-> <<0, 0, 0>>, type |-> "none", repeat |-> FALSE,
                          hit |-> {},
                          queuedLoad |-> W.queuedLoad, queuedUnload |-> W.queuedUnload,
                          ops |-> W.ops]
          /\ UNCHANGED <<budget, edits, chunkVars, meshVars, terrainVars>>

Update(pos, failing) ==
    /\ UpdateCall(pos, failing)
    /\ ticks' = ticks + 1

SetBlockRecorded(worldX, worldY, worldZ, blockType, history) ==
    /\ edits < MaxEdits
    /\ LET r == World_setBlock(World, worldX, worldY, worldZ, blockType)
           c == worldToChunk(worldX, worldZ)
       IN /\ chunks' = r.world.chunks
          /\ scene' = r.world.scene
          /\ lastCall' = [NoCall EXCEPT !.op = "setBlock", !.chunk = getChunkKey(c.x, c.z),
                                        !.ret = r.ok,
                                        !.pos = IF history THEN <<worldX, worldY, worldZ>>
                                                ELSE <<0, 0, 0>>,
                                        !.type = IF history THEN blockType ELSE "none",
                                        !.repeat = /\ history
                                                   /\ lastCall.op = "setBlock"
                                                   /\ lastCall.pos = <<worldX, worldY, worldZ>>
                                                   /\ lastCall.type = blockType]
    /\ edits' = edits + 1
    /\ UNCHANGED <<loadedChunks, chunkLoadQueue, chunkUnloadQueue, lastPlayerChunk,
                   budget, ticks, chunkVars, meshVars, terrainVars>>

\* Streaming: the viewer moves freely and terrain generation may throw
Tick ==
    /\ ticks < MaxTicks
    /\ \E pos \in ViewerPositions : \E failing \in SUBSET Attemptable(Requeued(pos)) :
           Update(pos, failing)

Next == Tick

Spec == Init /\ [][Next]_vars

\* Retrying: after the streaming ticks the game loop goes on calling update
\* every frame, the viewer staying in its chunk and terrain generation
\* succeeding; beyond MaxTicks only the parity of the tick counter is kept
RetryTick ==
    /\ ticks >= MaxTicks
    /\ \E pos \in ViewerPositions :
          /\ worldToChunk(pos[1], pos[2]) = lastPlayerChunk
          /\ UpdateCall(pos, {})
    /\ ticks' = IF ticks = MaxTicks THEN MaxTicks + 1 ELSE MaxTicks

NextRetry == Tick \/ RetryTick

SpecRetry == Init /\ [][NextRetry]_vars

\* Editing: streaming without terrain failures, interleaved with block edits
EditTick ==
    /\ ticks < MaxEditTicks
    /\ \E pos \in ViewerPositions : Update(pos, {})

\* the call as the streaming and read specifications see it: its chunk and
\* its result
SetBlock(worldX, worldY, worldZ, blockType) ==
    SetBlockRecorded(worldX, worldY, worldZ, blockType, FALSE)

Edit ==
    \E worldX \in EditXs, worldY \in EditYs, worldZ \in EditZs, blockType \in EditTypes :
        SetBlock(worldX, worldY, worldZ, blockType)

NextEdit == EditTick \/ Edit

SpecEdit == Init /\ [][NextEdit]_vars

\* Oscillation: the viewer moves back and forth between chunk (0,0) and the
\* adjacent chunk (1,0)
OscTick ==
    /\ ticks < MaxOscTicks
    /\ \E pos \in ViewerPositions :
          /\ worldToChunk(pos[1], pos[2]) \in {[x |-> 0, z |-> 0], [x |-> 1, z |-> 0]}
          /\ \E failing \in SUBSET Attemptable(Requeued(pos)) : Update(pos, failing)

NextOsc == OscTick

SpecOsc == Init /\ [][NextOsc]_vars

\* A chunk on its own: any sequence of its mutations
InitChunk ==
    /\ WorldInit
    /\ budget = {}
    /\ ChunkInit
    /\ MeshInit
    /\ TerrainIdle

ChunkSetBlockRecorded(history) ==
    /\ chunkOps < MaxChunkOps
    /\ \E p \in ProbePositions, blockType \in BlockTypes :
          LET r == Chunk_setBlock(blockChunk, p[1], p[2], p[3], blockType)
          IN /\ blockChunk' = r.chunk
             /\ chunkCall' = [op |-> "setBlock", ok |-> r.ok, count |-> 0,
                              old |-> Chunk_getBlock(blockChunk, p[1], p[2], p[3]),
                              type |-> blockType, mesh |-> {},
                              pos |-> IF history THEN p ELSE <<0, 0, 0>>,
                              repeat |-> /\ history
                                         /\ chunkCall.op = "setBlock"
                                         /\ chunkCall.pos = p
                                         /\ chunkCall.type = blockType]
    /\ chunkOps' = chunkOps + 1
    /\ UNCHANGED <<worldVars, meshVars, terrainVars>>

ChunkSetBlock == ChunkSetBlockRecorded(FALSE)

ChunkSetData ==
    /\ chunkOps < MaxChunkOps
    /\ \E chunkData \in DataGrids :
          /\ blockChunk' = Chunk_setData(blockChunk, chunkData)
          /\ chunkCall' = [NoChunkCall EXCEPT !.op = "setData", !.ok = TRUE]
    /\ chunkOps' = chunkOps + 1
    /\ UNCHANGED <<worldVars, meshVars, terrainVars>>

ChunkReplaceBlocks ==
    /\ chunkOps < MaxChunkOps
    /\ \E fromType \in BlockTypes, toType \in BlockTypes :
          LET r == Chunk_replaceBlocks(blockChunk, fromType, toType)
          IN /\ blockChunk' = r.chunk
             /\ chunkCall' = [op |-> "replaceBlocks", ok |-> TRUE, count |-> r.count,
                              old |-> fromType, type |-> toType, mesh |-> {},
                              pos |-> <<0, 0, 0>>, repeat |-> FALSE]
    /\ chunkOps' = chunkOps + 1
    /\ UNCHANGED <<worldVars, meshVars, terrainVars>>

ChunkFillRegion ==
    /\ chunkOps < MaxChunkOps
    /\ \E sx \in FillSpans(GridSize), sy \in FillSpans(GridHeight), sz \in FillSpans(GridSize),
          blockType \in FillTypes :
          LET r == Chunk_fillRegion(blockChunk, sx[1], sy[1], sz[1], sx[2], sy[2], sz[2],
                                    blockType)
          IN /\ blockChunk' = r.chunk
             /\ chunkCall' = [op |-> "fillRegion", ok |-> TRUE, count |-> r.count,
                              old |-> "null", type |-> blockType, mesh |-> {},
                              pos |-> <<0, 0, 0>>, repeat |-> FALSE]
    /\ chunkOps' = chunkOps + 1
    /\ UNCHANGED <<worldVars, meshVars, terrainVars>>

NextChunk == ChunkSetBlock \/ ChunkSetData \/ ChunkReplaceBlocks \/ ChunkFillRegion

SpecChunk == InitChunk /\ [][NextChunk]_vars

\* VoxelWorld.getBlock(worldX, worldY, worldZ)
GetBlock(worldX, worldY, worldZ) ==
    /\ LET c == worldToChunk(worldX, worldZ)
       IN lastCall' = [NoCall EXCEPT !.op = "getBlock", !.chunk = getChunkKey(c.x, c.z),
                                     !.value = World_getBlock(World, worldX, worldY, worldZ)]
    /\ UNCHANGED <<chunks, loadedChunks, chunkLoadQueue, chunkUnloadQueue, lastPlayerChunk,
                   scene, budget, edits, ticks, chunkVars, meshVars, terrainVars>>

Read ==
    \E worldX \in EditXs, worldY \in ReadYs, worldZ \in EditZs :
        GetBlock(worldX, worldY, worldZ)

\* the cells at whose centre a ray starts
RayCells ==
    ((-MaxViewer - RenderDistance - 1) * ChunkSize..(MaxViewer + RenderDistance + 2) * ChunkSize - 1)
        \X ((-1)..WorldHeight)
        \X ((-RenderDistance - 1) * ChunkSize..(RenderDistance + 1) * ChunkSize - 1)

RayDirections ==
    {<<0, 1, 0>>, <<0, -1, 0>>, <<1, 0, 0>>, <<-1, 0, 0>>, <<0, 0, 1>>, <<0, 0, -1>>}

\* VoxelWorld.raycastBlocks(camera, mousePosition), the camera and the mouse
\* giving the ray
Raycast ==
    /\ lastCall.op # "raycast"
    /\ \E cell \in RayCells, direction \in RayDirections :
          LET origin == [i \in 1..3 |-> 2 * cell[i] + 1]
          IN lastCall' = [NoCall EXCEPT !.op = "raycast", !.pos = origin,
                                        !.hit = raycastBlocks(World, origin, direction)]
    /\ UNCHANGED <<chunks, loadedChunks, chunkLoadQueue, chunkUnloadQueue, lastPlayerChunk,
                   scene, budget, edits, ticks, chunkVars, meshVars, terrainVars>>

NextRay == EditTick \/ Raycast

SpecRay == Init /\ [][NextRay]_vars

\* Chunk.getBlock(x, y, z)
ChunkGetBlock ==
    /\ \E p \in ProbePositions :
          chunkCall' = [NoChunkCall EXCEPT !.op = "getBlock",
                                           !.ok = Chunk_inBounds(blockChunk, p[1], p[2], p[3]),
                                           !.type = Chunk_getBlock(blockChunk, p[1], p[2], p[3])]
    /\ UNCHANGED <<worldVars, blockChunk, chunkOps, meshVars, terrainVars>>

\* Block access: a chunk on its own is mutated and read, or a streamed world
\* is edited and read
NextBlocks ==
    \/ chunkCall = NoChunkCall /\ (EditTick \/ Edit \/ Read)
    \/ lastCall = NoCall /\ (NextChunk \/ ChunkGetBlock)

SpecBlocks == Init /\ [][NextBlocks]_vars

\* ------------------------------------------------------------------------
\* setBlock calls with their arguments on record, on the world and on a
\* single chunk
\* ------------------------------------------------------------------------
EditAt ==
    \E worldX \in EditXs, worldY \in EditYs, worldZ \in EditZs, blockType \in EditTypes :
        SetBlockRecorded(worldX, worldY, worldZ, blockType, TRUE)

ChunkSetBlockAt == ChunkSetBlockRecorded(TRUE)

NextSetBlock ==
    \/ chunkCall = NoChunkCall /\ (EditTick \/ EditAt)
    \/ lastCall = NoCall /\ ChunkSetBlockAt

SpecSetBlock == Init /\ [][NextSetBlock]_vars

\* VoxelWorld.generateChunkMesh(chunk) on the chunk as it is
ChunkGenerateMesh ==
    /\ chunkCall' = [NoChunkCall EXCEPT !.op = "generateChunkMesh", !.ok = TRUE,
                                        !.mesh = generateChunkMesh(blockChunk)]
    /\ UNCHANGED <<worldVars, blockChunk, chunkOps, meshVars, terrainVars>>

\* Chunk meshing: a chunk is mutated and meshed
NextChunkMesh == NextChunk \/ ChunkGenerateMesh

SpecChunkMesh == InitChunk /\ [][NextChunkMesh]_vars

\* Terrain: two generators are constructed and asked for chunks in any order
SeedArgs == {{}} \cup {{n} : n \in 0..MaxSeed}

RandomSeeds == 0..MaxRandomSeed

InitTerrain ==
    /\ WorldInit
    /\ budget = {}
    /\ ChunkInit
    /\ MeshInit
    /\ \E seed1 \in SeedArgs, seed2 \in SeedArgs, random1 \in RandomSeeds, random2 \in RandomSeeds :
          generators = <<TerrainGenerator_new(seed1, random1),
                         TerrainGenerator_new(seed2, random2)>>
    /\ generated = <<>>

GenerateChunk ==
    /\ Len(generated) < MaxGenCalls
    /\ \E g \in DOMAIN generators, chunkX \in 0..MaxGenChunk :
          generated' = Append(generated,
                              [generator |-> g, x |-> chunkX, z |-> 0,
                               grid |-> Terrain_generateChunk(generators[g], chunkX, 0,
                                                              ChunkSize, WorldHeight)])
    /\ UNCHANGED <<worldVars, chunkVars, meshVars, generators>>

NextTerrain == GenerateChunk

SpecTerrain == InitTerrain /\ [][NextTerrain]_vars

\* Meshing: a chunk filled with up to MaxSolid voxels is meshed by each
\* mesher. The block Chunk holds the same grid, so that
\* VoxelWorld.generateChunkMesh meshes it too.
InitMesh ==
    /\ WorldInit
    /\ budget = {}
    /\ chunkOps = 0
    /\ chunkCall = NoChunkCall
    /\ \E fills \in [1..MaxSolid -> VoxelCells(VoxelChunkSize) \X VoxelTypes] :
          /\ voxelChunk = FilledChunk(VoxelChunk_new(0, 0, VoxelChunkSize), fills)
    /\ blockChunk = Chunk_setData(Chunk_new(0, 0, VoxelChunkSize, VoxelChunkSize),
                                  voxelChunk.voxels)
    /\ quads = <<>>
    /\ greedyDone = FALSE
    /\ exposed = <<>>
    /\ simple = {}
    /\ TerrainIdle

GenerateGreedyMesh ==
    /\ ~greedyDone
    /\ exposed = <<>>
    /\ simple = {}
    /\ chunkCall = NoChunkCall
    /\ quads' = generateGreedyMesh(voxelChunk)
    /\ greedyDone' = TRUE
    /\ UNCHANGED <<worldVars, chunkVars, voxelChunk, exposed, simple, terrainVars>>

GenerateSimpleMesh ==
    /\ ~greedyDone
    /\ exposed = <<>>
    /\ simple = {}
    /\ chunkCall = NoChunkCall
    /\ simple' = {generateSimpleMesh(voxelChunk)}
    /\ UNCHANGED <<worldVars, chunkVars, voxelChunk, quads, greedyDone, exposed, terrainVars>>

\* Chunk.isFaceExposed asked for every probe position and face
ProbeFaces ==
    /\ ~greedyDone
    /\ exposed = <<>>
    /\ simple = {}
    /\ chunkCall = NoChunkCall
    /\ exposed' = [pf \in FaceProbes \X FaceNames |->
                      isFaceExposed(voxelChunk, pf[1][1], pf[1][2], pf[1][3], pf[2])]
    /\ UNCHANGED <<worldVars, chunkVars, voxelChunk, quads, greedyDone, simple, terrainVars>>

\* VoxelWorld.generateChunkMesh on the block Chunk of the same grid
GenerateChunkMesh ==
    /\ ~greedyDone
    /\ exposed = <<>>
    /\ simple = {}
    /\ chunkCall = NoChunkCall
    /\ ChunkGenerateMesh

NextMesh == GenerateGreedyMesh \/ GenerateSimpleMesh \/ ProbeFaces \/ GenerateChunkMesh

SpecMesh == InitMesh /\ [][NextMesh]_vars

TypeOK ==
    /\ DOMAIN chunks = Range(loadedChunks)
    /\ edits \in 0..MaxEdits

\* ------------------------------------------------------------------------
\* Helpers of the properties
\* ------------------------------------------------------------------------
NoDuplicates(s) == \A i, j \in 1..Len(s) : s[i] = s[j] => i = j

IsSuffix(s, t) == \E n \in 0..Len(t) : s = SubSeq(t, n + 1, Len(t))

CountOps(ops, name) == Cardinality({i \in 1..Len(ops) : ops[i].op = name})

HasOp(ops, name, key, result) ==
    \E i \in 1..Len(ops) : ops[i] = [op |-> name, key |-> key, result |-> result]

Dist2(key, center) ==
    (key[1] - center[1]) * (key[1] - center[1]) + (key[2] - center[2]) * (key[2] - center[2])

KeyUniverse ==
    ((-MaxViewer - RenderDistance)..(MaxViewer + RenderDistance))
        \X ((-RenderDistance)..RenderDistance)

\* the lifecycle state of a chunk coordinate
ChunkState(key, loaded, loadQueue, unloadQueue) ==
    IF key \in Range(unloadQueue) THEN "queued-for-unload"
    ELSE IF key \in loaded THEN "loaded"
    ELSE IF key \in Range(loadQueue) THEN "queued-for-load"
    ELSE "unloaded"

\* the steps of unloaded -> queued-for-load -> loaded -> queued-for-unload ->
\* unloaded that one update call can take (it queues, then drains)
ChainSteps ==
    {<<"unloaded", "queued-for-load">>, <<"unloaded", "loaded">>,
     <<"queued-for-load", "loaded">>,
     <<"loaded", "queued-for-unload">>, <<"loaded", "unloaded">>,
     <<"queued-for-unload", "unloaded">>}

\* the mesh a chunk holds when its geometry matches its grid
MeshOfGrid(c) == Chunk_setMesh(c, generateChunkMesh(c)).mesh

EntersLoadedViaLoadQueue(key) ==
    (key \notin DOMAIN chunks /\ key \in DOMAIN chunks') =>
        /\ key \in Range(chunkLoadQueue \o lastCall'.queuedLoad)
        /\ HasOp(lastCall'.ops, "load", key, "loaded")
        /\ chunks'[key].isGenerated
        /\ chunks'[key].mesh = MeshOfGrid(chunks'[key])
        /\ chunks'[key].mesh \subseteq scene'

LeavesLoadedViaUnloadQueue(key) ==
    (key \in DOMAIN chunks /\ key \notin DOMAIN chunks') =>
        /\ key \in Range(chunkUnloadQueue \o lastCall'.queuedUnload)
        /\ HasOp(lastCall'.ops, "unload", key, "unloaded")

Range2(f) == {f[p] : p \in DOMAIN f}

\* the number of non-air cells of a chunk's grid
SolidCount(c) == Cardinality({p \in Cells(c.size, c.height) : c.blocks[p] # "air"})

\* the unit faces (cell, direction) a quad covers
QuadCells(q) ==
    LET direction == CHOOSE d \in Range(directions) : d.name = q.direction
    IN {<<getQuadPosition(<<q.x, q.y, q.z>>, direction, w, h), q.direction>> :
           w \in 0..(q.width - 1), h \in 0..(q.height - 1)}

CoveredFaces == UNION {QuadCells(quads[i][j]) : <<i, j>> \in
                          {ij \in (1..Len(quads)) \X (1..(VoxelChunkSize * VoxelChunkSize * VoxelChunkSize)) :
                              ij[2] <= Len(quads[ij[1]])}}

ExposedFaces(c) ==
    {pf \in VoxelCells(c.size) \X {directions[i].name : i \in 1..Len(directions)} :
        isFaceExposed(c, pf[1][1], pf[1][2], pf[1][3], pf[2])}

\* ------------------------------------------------------------------------
\* C1: the unit faces (cell, direction) covered by the quads of the greedy
\* mesher are exactly the pairs for which isFaceExposed holds: greedy merging
\* neither drops nor adds a visible face.
\* ------------------------------------------------------------------------
C1_GreedyCoversExposedFaces ==
    greedyDone => CoveredFaces = ExposedFaces(voxelChunk)

\* ------------------------------------------------------------------------
\* C2: after any mutation of a chunk (setBlock, setData, replaceBlocks,
\* fillRegion) its counter equals the number of non-air cells of its grid and
\* isEmpty() holds exactly when no cell is solid; one accepted setBlock
\* changes the counter by +1 (air to solid), -1 (solid to air) or 0.
\* ------------------------------------------------------------------------
C2_CounterMatchesGrid ==
    [][chunkOps' = chunkOps + 1 =>
          /\ blockChunk'.blockCount = SolidCount(blockChunk')
          /\ Chunk_isEmpty(blockChunk') <=> (\A p \in DOMAIN blockChunk'.blocks :
                                                blockChunk'.blocks[p] = "air")
          /\ (chunkCall'.op = "setBlock" /\ chunkCall'.ok) =>
                blockChunk'.blockCount - blockChunk.blockCount =
                    (IF chunkCall'.old = "air" /\ chunkCall'.type # "air" THEN 1
                     ELSE IF chunkCall'.old # "air" /\ chunkCall'.type = "air" THEN -1
                     ELSE 0)]_vars

C2_Witness ==
    /\ chunkOps >= 2
    /\ chunkCall.op = "setBlock"
    /\ chunkCall.ok
    /\ chunkCall.old \notin {"air", chunkCall.type}
    /\ chunkCall.type # "air"
    /\ blockChunk.blockCount >= 2
    /\ \E p \in DOMAIN blockChunk.blocks : blockChunk.blocks[p] = "air"

\* ------------------------------------------------------------------------
\* C3: when VoxelWorld.setBlock returns true, the chunk holds and the scene
\* registers exactly the mesh of the post-edit grid (none if no face is
\* exposed), and the chunk's dirty flag is clear.
\* ------------------------------------------------------------------------
C3_SetBlockRegenerates ==
    (lastCall.op = "setBlock" /\ lastCall.ret) =>
        LET c == chunks[lastCall.chunk]
        IN /\ c.mesh = MeshOfGrid(c)
           /\ {m \in scene : m.chunk = lastCall.chunk} = MeshOfGrid(c)
           /\ ~c.isDirty

C6_UnchangedDoesNothing ==
    [][(ticks >= 1 /\ ticks' = ticks + 1 /\ ~lastCall'.changed) =>
          UNCHANGED <<chunks, loadedChunks, chunkLoadQueue, chunkUnloadQueue, scene>>]_vars

\* C6 (amended): update called with the chunk coordinate of the previous call
\* adds no coordinate to either queue; it only drains the queues from their
\* heads.
C6_UnchangedOnlyDrains ==
    [][(ticks >= 1 /\ ticks' = ticks + 1 /\ ~lastCall'.changed) =>
          /\ lastCall'.queuedLoad = <<>>
          /\ lastCall'.queuedUnload = <<>>
          /\ IsSuffix(chunkLoadQueue', chunkLoadQueue)
          /\ IsSuffix(chunkUnloadQueue', chunkUnloadQueue)
          /\ Len(chunkLoadQueue) - Len(chunkLoadQueue') = CountOps(lastCall'.ops, "load")
          /\ Len(chunkUnloadQueue) - Len(chunkUnloadQueue')
                 = CountOps(lastCall'.ops, "unload")]_vars

C6_Witness ==
    /\ ticks >= 2
    /\ lastCall.op = "update"
    /\ ~lastCall.changed
    /\ lastCall.ops # <<>>
    /\ \E key \in KeyUniverse :
          /\ InLoadRadius(key[1], key[2], lastPlayerChunk)
          /\ key \notin DOMAIN chunks
          /\ key \notin Range(chunkLoadQueue)

\* ------------------------------------------------------------------------
\* C7: one update tick loads at most K and unloads at most K chunks, K the
\* per-tick budget; the entries beyond the budget stay queued in FIFO order.
\* ------------------------------------------------------------------------
C7_BudgetPerTick ==
    [][ticks' = ticks + 1 =>
          LET loads == CountOps(lastCall'.ops, "load")
              unloads == CountOps(lastCall'.ops, "unload")
              loadQueue == chunkLoadQueue \o lastCall'.queuedLoad
              unloadQueue == chunkUnloadQueue \o lastCall'.queuedUnload
          IN /\ \A k \in budget : loads <= k /\ unloads <= k
             /\ budget = {} => lastCall'.ops = <<>>
             /\ chunkLoadQueue' = SubSeq(loadQueue, loads + 1, Len(loadQueue))
             /\ chunkUnloadQueue' = SubSeq(unloadQueue, unloads + 1, Len(unloadQueue))]_vars

C7_Witness ==
    /\ lastCall.op = "update"
    /\ \E k \in budget : CountOps(lastCall.ops, "load") = k
    /\ Len(chunkLoadQueue) >= 2

\* ------------------------------------------------------------------------
\* C8: within one update tick every unload is processed before any load.
\* ------------------------------------------------------------------------
C8_UnloadsBeforeLoads ==
    \A i, j \in 1..Len(lastCall.ops) :
        (lastCall.ops[i].op = "load" /\ lastCall.ops[j].op = "unload") => j < i

C8_Witness ==
    /\ CountOps(lastCall.ops, "unload") >= 1
    /\ CountOps(lastCall.ops, "load") >= 1

\* ------------------------------------------------------------------------
\* C9: a loaded chunk is queued for unload only when it lies outside an
\* unload radius strictly larger than the load radius (here larger by one
\* chunk); between the two radii it stays loaded and unqueued.
\* ------------------------------------------------------------------------
C9_Hysteresis ==
    lastCall.op = "update" =>
        \A key \in Range(lastCall.queuedUnload) :
            Dist2(key, lastCall.chunk) > (RenderDistance + 1) * (RenderDistance + 1)

\* ------------------------------------------------------------------------
\* C10: while the viewer moves back and forth between two adjacent chunks,
\* no coordinate is in the load queue and in the unload queue at the same
\* time, neither between ticks nor right after a tick has requeued.
\* ------------------------------------------------------------------------
C10_NoThrashing ==
    [][/\ Range(chunkLoadQueue') \cap Range(chunkUnloadQueue') = {}
       /\ ticks' = ticks + 1 =>
             Range(chunkLoadQueue \o lastCall'.queuedLoad)
                 \cap Range(chunkUnloadQueue \o lastCall'.queuedUnload) = {}]_vars

C10_Witness ==
    /\ lastCall.op = "update"
    /\ lastCall.changed
    /\ chunkUnloadQueue # <<>>
    /\ chunkLoadQueue # <<>>
    /\ \E key \in Range(chunkUnloadQueue) :
          InLoadRadius(key[1], key[2], [x |-> 1 - lastPlayerChunk.x, z |-> 0])

\* ------------------------------------------------------------------------
\* C11: getBlock changes no state; Chunk.getBlock returns 'air' for every
\* out-of-range coordinate and the stored identifier otherwise, and
\* VoxelWorld.getBlock returns 'air' when the owning chunk is not loaded,
\* without loading or queueing it.
\* ------------------------------------------------------------------------
C11_GetBlockReturnsAir ==
    [][/\ chunkCall'.op = "getBlock" =>
             /\ UNCHANGED <<blockChunk, chunkOps>>
             /\ ~chunkCall'.ok => chunkCall'.type = "air"
             /\ chunkCall'.ok => chunkCall'.type \in Range2(blockChunk.blocks)
       /\ lastCall'.op = "getBlock" =>
             /\ UNCHANGED <<chunks, loadedChunks, chunkLoadQueue, chunkUnloadQueue, scene>>
             /\ lastCall'.chunk \notin DOMAIN chunks => lastCall'.value = "air"]_vars

\* ------------------------------------------------------------------------
\* C12: a rejected setBlock returns false and changes nothing: Chunk.setBlock
\* out of range leaves grid, counter and dirty flag alone; VoxelWorld.setBlock
\* on a chunk that is not loaded changes no chunk, queue or mesh, and a chunk
\* loaded later holds what terrain generation produced.
\* ------------------------------------------------------------------------
C12_RejectedSetBlockNoEffect ==
    [][/\ (chunkCall'.op = "setBlock" /\ chunkOps' = chunkOps + 1) =>
             /\ chunkCall'.ok <=> chunkCall'.old # "null"
             /\ ~chunkCall'.ok => blockChunk' = blockChunk
       /\ (lastCall'.op = "setBlock" /\ edits' = edits + 1) =>
             /\ lastCall'.chunk \notin DOMAIN chunks => ~lastCall'.ret
             /\ ~lastCall'.ret =>
                   UNCHANGED <<chunks, loadedChunks, chunkLoadQueue, chunkUnloadQueue, scene>>
       /\ \A key \in DOMAIN chunks' \ DOMAIN chunks :
             chunks'[key].blocks = generateChunk(key[1], key[2], ChunkSize, WorldHeight)]_vars

\* setBlock was called while no chunk was loaded, and chunks are loaded now
C12_Witness ==
    /\ edits >= 1
    /\ lastCall.op = "update"
    /\ loadedChunks # <<>>
    /\ Len(loadedChunks) =
          Cardinality({i \in 1..Len(lastCall.ops) : lastCall.ops[i].result = "loaded"})

\* the cell next to p across the named face
NeighbourOf(p, face) ==
    CASE face = "top"    -> <<p[1], p[2] + 1, p[3]>>
      [] face = "bottom" -> <<p[1], p[2] - 1, p[3]>>
      [] face = "north"  -> <<p[1], p[2], p[3] - 1>>
      [] face = "south"  -> <<p[1], p[2], p[3] + 1>>
      [] face = "east"   -> <<p[1] + 1, p[2], p[3]>>
      [] face = "west"   -> <<p[1] - 1, p[2], p[3]>>

\* p is a cell of the voxel chunk holding a voxel
SolidCell(p) == p \in DOMAIN voxelChunk.voxels /\ voxelChunk.voxels[p] # "null"

\* ------------------------------------------------------------------------
\* C13: isFaceExposed is false for every position that is not solid (out of
\* range included) in all six directions; for a solid voxel it is true exactly
\* when the neighbour in that direction is not solid or outside the chunk.
\* ------------------------------------------------------------------------
C13_FaceExposedIffOpenNeighbour ==
    \A pf \in DOMAIN exposed :
        exposed[pf] <=> (SolidCell(pf[1]) /\ ~SolidCell(NeighbourOf(pf[1], pf[2])))

C13_Witness ==
    /\ exposed # <<>>
    /\ \E pf \in DOMAIN exposed :
          exposed[pf] /\ NeighbourOf(pf[1], pf[2]) \notin DOMAIN voxelChunk.voxels
    /\ \E pf \in DOMAIN exposed :
          exposed[pf] /\ NeighbourOf(pf[1], pf[2]) \in DOMAIN voxelChunk.voxels
    /\ \E pf \in DOMAIN exposed : SolidCell(pf[1]) /\ ~exposed[pf]

\* the cells of the voxel chunk holding a voxel
SolidCells == {p \in DOMAIN voxelChunk.voxels : voxelChunk.voxels[p] # "null"}

\* the solid voxels form one axis-aligned box of one type, from lo to hi
IsBox(lo, hi) ==
    /\ SolidCells = {p \in DOMAIN voxelChunk.voxels : \A a \in 1..3 : lo[a] <= p[a] /\ p[a] <= hi[a]}
    /\ \A p, q \in SolidCells : voxelChunk.voxels[p] = voxelChunk.voxels[q]

\* the number of unit faces on the surface of the box from lo to hi
BoxUnitFaces(lo, hi) ==
    LET a == hi[1] - lo[1] + 1
        b == hi[2] - lo[2] + 1
        c == hi[3] - lo[3] + 1
    IN 2 * (a * b + b * c + a * c)

QuadCount == Cardinality({ij \in (1..Len(quads)) \X (1..(VoxelChunkSize * VoxelChunkSize * VoxelChunkSize)) :
                             ij[2] <= Len(quads[ij[1]])})

\* ------------------------------------------------------------------------
\* C14: for a chunk whose voxels form a single axis-aligned box of one type,
\* the greedy mesher emits exactly 6 quads and the simple mesher one quad per
\* exposed unit face of the box.
\* ------------------------------------------------------------------------
C14_BoxGivesSixQuads ==
    \A lo, hi \in SolidCells :
        IsBox(lo, hi) =>
            /\ greedyDone => QuadCount = 6
            /\ \A g \in simple : Len(g.indices) = 6 * BoxUnitFaces(lo, hi)

\* the quads of all six directions
AllQuads == {quads[ij[1]][ij[2]] : ij \in
                {ij \in (1..Len(quads)) \X (1..(VoxelChunkSize * VoxelChunkSize * VoxelChunkSize)) :
                    ij[2] <= Len(quads[ij[1]])}}

\* ------------------------------------------------------------------------
\* C15: every cell covered by a quad of the greedy mesher lies within the
\* chunk, holds the block type of the quad's start cell and has its face in
\* the quad's direction exposed.
\* ------------------------------------------------------------------------
C15_QuadCellsValid ==
    greedyDone =>
        \A q \in AllQuads : \A cf \in QuadCells(q) :
            /\ cf[1] \in DOMAIN voxelChunk.voxels
            /\ voxelChunk.voxels[cf[1]] = q.type
            /\ ~SolidCell(NeighbourOf(cf[1], cf[2]))

\* the face a position of the index buffer (from 0) belongs to
FaceAt(order, i) == order[(i \div 6) + 1]

\* ------------------------------------------------------------------------
\* C16: the index buffer built for a chunk is partitioned into contiguous,
\* non-overlapping ranges that cover it, one per block type with an exposed
\* face, and every triangle inside a range belongs to a face of a voxel of
\* the range's block type.
\* ------------------------------------------------------------------------
C16_GroupsPartitionByType ==
    \A m \in chunkCall.mesh :
        LET total == Len(MeshIndices(m.order))
            n == Len(m.groups)
        IN /\ n = Cardinality({m.order[i].type : i \in 1..Len(m.order)})
           /\ \A g, h \in 1..n : g # h => m.groups[g].type # m.groups[h].type
           /\ n > 0 => m.groups[1].start = 0
           /\ \A g \in 1..(n - 1) :
                 m.groups[g + 1].start = m.groups[g].start + m.groups[g].count
           /\ n > 0 => m.groups[n].start + m.groups[n].count = total
           /\ \A g \in 1..n :
                 \A i \in m.groups[g].start..(m.groups[g].start + m.groups[g].count - 1) :
                     FaceAt(m.order, i).type = m.groups[g].type

UnitVectors ==
    {<<0, 1, 0>>, <<0, -1, 0>>, <<1, 0, 0>>, <<-1, 0, 0>>, <<0, 0, 1>>, <<0, 0, -1>>}

\* the (solid voxel, direction) pairs whose neighbour holds no voxel
ExposedPairs ==
    {pn \in SolidCells \X UnitVectors :
        <<pn[1][1] + pn[2][1], pn[1][2] + pn[2][2], pn[1][3] + pn[2][3]>> \notin SolidCells}

\* the k-th face of a simple-mesh geometry: its six vertices, normal and voxel
SimpleFace(g, k) ==
    LET v == [j \in 1..6 |-> g.vertices[6 * (k - 1) + j]]
        n == g.normals[6 * (k - 1) + 1]
    IN [vertices |-> v, normal |-> n,
        voxel |-> [a \in 1..3 |-> (v[1][a] + v[3][a] - 2 * n[a]) \div 4]]

\* the corners, in half voxels, of the face of voxel p towards n
FaceCorners(p, n) ==
    {<<2 * p[1] + (IF n[1] # 0 THEN n[1] ELSE d[1]),
       2 * p[2] + (IF n[2] # 0 THEN n[2] ELSE d[2]),
       2 * p[3] + (IF n[3] # 0 THEN n[3] ELSE d[3])>> : d \in {-1, 1} \X {-1, 1} \X {-1, 1}}

\* the corners, in voxels, of the face of block p towards n (a block spans p .. p+1)
BlockFaceCorners(p, n) ==
    {<<p[1] + (IF n[1] = 1 THEN 1 ELSE IF n[1] = -1 THEN 0 ELSE d[1]),
       p[2] + (IF n[2] = 1 THEN 1 ELSE IF n[2] = -1 THEN 0 ELSE d[2]),
       p[3] + (IF n[3] = 1 THEN 1 ELSE IF n[3] = -1 THEN 0 ELSE d[3])>> :
           d \in {0, 1} \X {0, 1} \X {0, 1}}

\* VoxelMesher.generateSimpleMesh: one face of two triangles per exposed pair,
\* with verticesPerFace vertices
SimpleMeshFaces(verticesPerFace) ==
    \A g \in simple :
        LET n == Cardinality(ExposedPairs)
        IN /\ Len(g.vertices) = verticesPerFace * n
           /\ Len(g.indices) = 6 * n
           /\ {<<SimpleFace(g, k).voxel, SimpleFace(g, k).normal>> : k \in 1..n} = ExposedPairs
           /\ \A k \in 1..n :
                 LET f == SimpleFace(g, k)
                 IN /\ \A j \in 1..6 : g.normals[6 * (k - 1) + j] = f.normal
                    /\ Range(f.vertices) = FaceCorners(f.voxel, f.normal)
                    /\ \A j \in 1..6 :
                          /\ g.indices[6 * (k - 1) + j] >= 6 * (k - 1)
                          /\ g.indices[6 * (k - 1) + j] < 6 * k
                    /\ \A t \in 0..1 :
                          Cardinality({g.vertices[g.indices[6 * (k - 1) + 3 * t + j] + 1] :
                                          j \in 1..3}) = 3

\* VoxelWorld.generateChunkMesh: one quad of four vertices and two triangles
\* per exposed pair
ChunkMeshFaces ==
    \A m \in chunkCall.mesh :
        LET n == Cardinality(ExposedPairs)
            vertices == MeshVertices(blockChunk, m.order)
            normals == MeshNormals(m.order)
            indices == MeshIndices(m.order)
        IN /\ Len(m.order) = n
           /\ Len(vertices) = 4 * n
           /\ Len(indices) = 6 * n
           /\ {<<<<m.order[k].x, m.order[k].y, m.order[k].z>>, normals[4 * (k - 1) + 1]>> :
                  k \in 1..n} = ExposedPairs
           /\ \A k \in 1..n :
                 /\ \A j \in 1..4 : normals[4 * (k - 1) + j] = normals[4 * (k - 1) + 1]
                 /\ {vertices[4 * (k - 1) + j] : j \in 1..4} =
                        BlockFaceCorners(<<m.order[k].x, m.order[k].y, m.order[k].z>>,
                                         normals[4 * (k - 1) + 1])
                 /\ \A j \in 1..6 :
                       /\ indices[6 * (k - 1) + j] >= 4 * (k - 1)
                       /\ indices[6 * (k - 1) + j] < 4 * k
                 /\ \A t \in 0..1 :
                       Cardinality({vertices[indices[6 * (k - 1) + 3 * t + j] + 1] :
                                       j \in 1..3}) = 3

\* ------------------------------------------------------------------------
\* C17 (as stated): the simple mesher emits exactly one quad of 4 vertices
\* and 2 triangles with the direction's normal for each (solid voxel,
\* direction) pair with an exposed face and none for any other pair; every
\* triangle index refers to a vertex of its own quad.
\* ------------------------------------------------------------------------
C17_OneQuadOfFourVertices == SimpleMeshFaces(4) /\ ChunkMeshFaces

\* C17 (amended): as C17, except that VoxelMesher.generateSimpleMesh builds
\* each quad from 6 vertices, three per triangle, where
\* VoxelWorld.generateChunkMesh builds it from 4 shared ones.
C17_OneQuadPerExposedFace == SimpleMeshFaces(6) /\ ChunkMeshFaces

C17_Witness ==
    /\ \E g \in simple : Len(g.indices) >= 12
    /\ Cardinality(SolidCells) >= 2
    /\ Cardinality(ExposedPairs) < 6 * Cardinality(SolidCells)

\* a chunk holds at least one block that is not air
HasSolid(c) == \E p \in DOMAIN c.blocks : c.blocks[p] # "air"

\* ------------------------------------------------------------------------
\* C18: after any sequence of loads, edits and unloads the scene holds
\* exactly one mesh, that of the current grid, for each loaded chunk with at
\* least one solid block, and none for an empty or an unloaded chunk.
\* ------------------------------------------------------------------------
C18_OneMeshPerSolidLoadedChunk ==
    /\ \A m \in scene : m.chunk \in DOMAIN chunks
    /\ \A key \in DOMAIN chunks :
          LET registered == {m \in scene : m.chunk = key}
          IN /\ Cardinality(registered) = IF HasSolid(chunks[key]) THEN 1 ELSE 0
             /\ registered = MeshOfGrid(chunks[key])
    /\ DOMAIN chunks = Range(loadedChunks)

C18_Witness ==
    /\ edits >= 1
    /\ lastCall.op = "update"
    /\ \E i \in 1..Len(lastCall.ops) : lastCall.ops[i].result = "unloaded"
    /\ \E key \in DOMAIN chunks : ~HasSolid(chunks[key])
    /\ \E key \in DOMAIN chunks : HasSolid(chunks[key])

\* the operations of a call whose load failed
FailedOps(ops) == {i \in 1..Len(ops) : ops[i].result = "failed"}

\* ------------------------------------------------------------------------
\* C19: when terrain generation throws for a chunk being loaded, update
\* returns normally; the coordinate is afterwards in neither the load queue
\* nor the loaded map and has no mesh in the scene; and the call still
\* processes the queued operations up to its budget: the heads of the unload
\* queue, then of the load queue, each with its effect.
\* ------------------------------------------------------------------------
C19_FailedLoadIsContained ==
    [][(ticks' = ticks + 1 /\ FailedOps(lastCall'.ops) # {}) =>
          LET ops == lastCall'.ops
              pending == (chunkUnloadQueue \o lastCall'.queuedUnload)
                             \o (chunkLoadQueue \o lastCall'.queuedLoad)
          IN /\ lastCall'.ret
             /\ \A k \in budget : Len(ops) = Min(k, Len(pending))
             /\ \A i \in 1..Len(ops) : ops[i].key = pending[i]
             /\ \A i \in FailedOps(ops) :
                   /\ ops[i].op = "load"
                   /\ ops[i].key \notin Range(chunkLoadQueue')
                   /\ ops[i].key \notin Range(loadedChunks')
                   /\ ops[i].key \notin DOMAIN chunks'
                   /\ \A m \in scene' : m.chunk # ops[i].key
             /\ \A i \in 1..Len(ops) :
                   /\ ops[i].result = "loaded" =>
                         /\ ops[i].key \in DOMAIN chunks'
                         /\ ops[i].key \in Range(loadedChunks')
                   /\ ops[i].result = "unloaded" => ops[i].key \notin DOMAIN chunks'
                   /\ ops[i].result \in {"loaded", "unloaded", "failed"}]_vars

C19_Witness ==
    /\ lastCall.op = "update"
    /\ \E i, j \in 1..Len(lastCall.ops) :
          /\ i < j
          /\ lastCall.ops[i].result = "failed"
          /\ lastCall.ops[j].result = "loaded"
          /\ lastCall.ops[i].key \notin DOMAIN chunks
          /\ lastCall.ops[j].key \in DOMAIN chunks

\* the last call failed to load key, which is within the viewer's load radius
FailedInRadius(key) ==
    /\ \E i \in 1..Len(lastCall.ops) :
          lastCall.ops[i].result = "failed" /\ lastCall.ops[i].key = key
    /\ InLoadRadius(key[1], key[2], lastPlayerChunk)

\* ------------------------------------------------------------------------
\* C20: a chunk whose load failed and that is within the viewer's load
\* radius is queued for load again by a later update call, also when the
\* viewer has stayed in the same chunk. So update never comes to rest there:
\* no call with the viewer in the same chunk leaves the world as it was
\* (and with it every further such call) while a chunk whose load has just
\* failed within the load radius is neither loaded nor queued for load.
\* ------------------------------------------------------------------------
C20_FailedLoadRetried ==
    [][(/\ ticks' # ticks
        /\ lastCall.op = "update"
        /\ ~lastCall'.changed
        /\ <<chunks, loadedChunks, chunkLoadQueue, chunkUnloadQueue, scene,
             lastPlayerChunk>>' =
           <<chunks, loadedChunks, chunkLoadQueue, chunkUnloadQueue, scene,
             lastPlayerChunk>>)
          => \A key \in KeyUniverse :
                FailedInRadius(key) =>
                    key \in Range(loadedChunks) \cup Range(chunkLoadQueue)]_vars

\* ------------------------------------------------------------------------
\* C21: setBlock(p, T) called a second time in a row, on a chunk or on the
\* world, leaves the grid, the solid counter, the dirty flag and the
\* registered geometry as the first call left them and returns what the
\* first call returned.
\* ------------------------------------------------------------------------
C21_SetBlockIdempotent ==
    [][/\ (chunkCall'.op = "setBlock" /\ chunkCall'.repeat /\ chunkOps' = chunkOps + 1) =>
             /\ blockChunk'.blocks = blockChunk.blocks
             /\ blockChunk'.blockCount = blockChunk.blockCount
             /\ blockChunk'.isDirty = blockChunk.isDirty
             /\ chunkCall'.ok = chunkCall.ok
       /\ (lastCall'.op = "setBlock" /\ lastCall'.repeat /\ edits' = edits + 1) =>
             /\ \A key \in DOMAIN chunks :
                   /\ chunks'[key].blocks = chunks[key].blocks
                   /\ chunks'[key].blockCount = chunks[key].blockCount
                   /\ chunks'[key].isDirty = chunks[key].isDirty
             /\ DOMAIN chunks' = DOMAIN chunks
             /\ scene' = scene
             /\ lastCall'.ret = lastCall.ret]_vars

C21_Witness ==
    /\ lastCall.op = "setBlock"
    /\ lastCall.repeat
    /\ lastCall.ret
    /\ lastCall.type # "air"
    /\ World_getBlock(World, lastCall.pos[1], lastCall.pos[2], lastCall.pos[3]) = lastCall.type
    /\ \E m \in scene : m.chunk = lastCall.chunk

\* ------------------------------------------------------------------------
\* C22: two generateChunk calls with the same seed value and the same chunk
\* coordinates and sizes return the same grid, whatever was generated in
\* between, on one generator and on two generators constructed with the
\* same seed value.
\* ------------------------------------------------------------------------
C22_DeterministicTerrain ==
    \A i, j \in 1..Len(generated) :
        (/\ generators[generated[i].generator].arg # {}
         /\ generators[generated[i].generator].arg = generators[generated[j].generator].arg
         /\ generated[i].x = generated[j].x
         /\ generated[i].z = generated[j].z)
            => generated[i].grid = generated[j].grid

\* the outward normal of the face a raycast hit, as the mesher emitted it
HitOutward(r) ==
    LET m == CHOOSE m \in chunks[r.chunk].mesh : TRUE
    IN FaceDir(m.order[r.face].face).dir

\* ------------------------------------------------------------------------
\* C23: for a ray that hits a face with outward normal n of a solid block
\* b, raycast reports b, the cell behind the hit face, as the struck block
\* and b + n, the cell in front of it, as the adjacent block.
\* ------------------------------------------------------------------------
C23_StruckAndAdjacent ==
    \A r \in lastCall.hit :
        /\ r.position = [i \in 1..3 |-> (r.point[i] - HitOutward(r)[i]) \div 2]
        /\ r.adjacent = [i \in 1..3 |-> (r.point[i] + HitOutward(r)[i]) \div 2]

\* the cell of the world grid that a world coordinate addresses: the chunk
\* at the floor of world / ChunkSize, the local offset world - chunk * ChunkSize
AddressedChunk(pos) == <<pos[1] \div ChunkSize, pos[3] \div ChunkSize>>

AddressedCell(pos) ==
    <<pos[1] - (pos[1] \div ChunkSize) * ChunkSize, pos[2],
      pos[3] - (pos[3] \div ChunkSize) * ChunkSize>>

C25_NoCellCoveredTwice ==
    greedyDone =>
        \A i \in 1..Len(quads) :
            \A j, k \in 1..Len(quads[i]) :
                j # k => QuadCells(quads[i][j]) \cap QuadCells(quads[i][k]) = {}

\* a sweep with two quads, one of which holds, next to its start, a voxel
\* with an exposed face of its own: that cell was visited and started no quad
C25_Witness ==
    /\ greedyDone
    /\ \E i \in 1..Len(quads) :
          \E j, k \in 1..Len(quads[i]) :
              /\ j # k
              /\ quads[i][j].direction = "top"
              /\ quads[i][j].x = 0
              /\ quads[i][j].width = 2
              /\ SolidCell(<<1, quads[i][j].y, quads[i][j].z>>)
              /\ ~SolidCell(NeighbourOf(<<1, quads[i][j].y, quads[i][j].z>>, "top"))

\* the least of a non-empty set of integers
Least(S) == CHOOSE n \in S : \A m \in S : n <= m

\* the corners of the part of quad q that covers the cell: the unit square
\* of the quad at the cell's offset from the quad's start
QuadPart(q, cell) ==
    LET direction == CHOOSE d \in Range(directions) : d.name = q.direction
        v == createQuadVertices(q, direction)
        n == faceDefinitions[q.direction].normal
        start == <<q.x, q.y, q.z>>
    IN {[a \in 1..3 |-> Least({v[j][a] : j \in 1..4}) + 2 * (cell[a] - start[a])
                           + (IF n[a] # 0 THEN 0 ELSE d[a])] : d \in {0, 2} \X {0, 2} \X {0, 2}}

\* the corners of the square the simple mesher emits for the k-th exposed face
SimpleSquare(g, k) == {g.vertices[6 * (k - 1) + j] : j \in 1..6}

\* ------------------------------------------------------------------------
\* C26: for every exposed unit face of a voxel, the square the simple
\* mesher emits for it and the part of the greedy quad covering it lie in
\* the same plane and span the same coordinates.
\* ------------------------------------------------------------------------
C26_SameSurface ==
    greedyDone =>
        LET exposedFaces == getExposedFaces(voxelChunk)
            g == generateSimpleMesh(voxelChunk)
        IN \A k \in 1..Len(exposedFaces) :
              \A q \in AllQuads :
                  LET f == exposedFaces[k]
                  IN <<<<f.x, f.y, f.z>>, f.face>> \in QuadCells(q) =>
                        QuadPart(q, <<f.x, f.y, f.z>>) = SimpleSquare(g, k)

\* every chunk coordinate within the load radius of the viewer's chunk is
\* loaded
AllInRadiusLoaded(playerChunk, loaded) ==
    \A key \in Range(ChunksInRange(playerChunk)) : key \in Range(loaded)

\* ------------------------------------------------------------------------
\* C27: with a budget of at least 1 and no failing generation, a viewer
\* who stays where he is has, after finitely many ticks, every chunk within
\* the load radius loaded and both queues empty.  An update tick in the
\* viewer's chunk that ends with both queues empty leaves nothing for the
\* later ticks to do, so by then every chunk within the radius is loaded.
\* ------------------------------------------------------------------------
C27_ViewerAtRestHasChunks ==
    [][(/\ ticks' = ticks + 1
        /\ budget # {}
        /\ lastCall'.op = "update"
        /\ ~lastCall'.changed
        /\ chunkLoadQueue' = <<>>
        /\ chunkUnloadQueue' = <<>>)
          => AllInRadiusLoaded(lastPlayerChunk', loadedChunks')]_vars

\* the coordinates the update call on record took out of the world
UnloadedBy(call) ==
    {call.ops[i].key : i \in {i \in 1..Len(call.ops) :
                                 call.ops[i].op = "unload" /\ call.ops[i].result = "unloaded"}}

\* ------------------------------------------------------------------------
\* C28: a chunk is never unloaded while its coordinate is within the load
\* radius of the viewer's current chunk: an unload still pending when the
\* viewer comes back within range is not carried out.
\* ------------------------------------------------------------------------
C28_NoUnloadWithinRadius ==
    [][(ticks' = ticks + 1 /\ lastCall'.op = "update") =>
          \A key \in UnloadedBy(lastCall') :
              ~InLoadRadius(key[1], key[2],
                            [x |-> lastCall'.chunk[1], z |-> lastCall'.chunk[2]])]_vars

\* ------------------------------------------------------------------------
\* C29: the chunk's world offset is applied exactly once: a face of local
\* voxel (x, y, z) of the chunk at (cx, cz) is rendered (vertex plus mesh
\* position) at world x in [cx*size + x, cx*size + x + 1] and world z in
\* [cz*size + z, cz*size + z + 1].  Coordinates are in half blocks.
\* ------------------------------------------------------------------------
C29_OffsetAppliedOnce ==
    \A key \in DOMAIN chunks :
        \A m \in chunks[key].mesh :
            LET c == chunks[key]
                rendered == RenderedVertices(c, m)
            IN \A v \in 1..Len(rendered) :
                  LET f == m.order[((v - 1) \div 4) + 1]
                  IN /\ rendered[v][1] >= 2 * (c.x * c.size + f.x)
                     /\ rendered[v][1] <= 2 * (c.x * c.size + f.x + 1)
                     /\ rendered[v][3] >= 2 * (c.z * c.size + f.z)
                     /\ rendered[v][3] <= 2 * (c.z * c.size + f.z + 1)

\* the direction of the ray on record, from its origin and the point it hit
HitDirection(r) ==
    [i \in 1..3 |-> IF r.point[i] > lastCall.pos[i] THEN 1
                    ELSE IF r.point[i] < lastCall.pos[i] THEN -1 ELSE 0]

\* ------------------------------------------------------------------------
\* C30: when a ray intersects the geometry of several loaded chunks,
\* raycast reports the intersection with the smallest distance from the
\* ray origin among all of them, whatever the order the chunks were loaded
\* in.
\* ------------------------------------------------------------------------
C30_NearestOfAllChunks ==
    \A r \in lastCall.hit :
        \A h \in Range(Intersects(World, loadedChunks, lastCall.pos, HitDirection(r))) :
            r.distance <= h.distance

====
